---- MODULE Spec2Model ----
(***************************************************************************)
(* PlanNUS study-plan board (frontend/components/MainBoard.tsx): the plan   *)
(* state (academicYears, stagedModules), the operations that edit it, and   *)
(* the debounced background validation (checkAllConstraints) that publishes *)
(* the prerequisite and offering violation maps.                            *)
(***************************************************************************)
EXTENDS Integers, Sequences, FiniteSets, TLC

(***************************************************************************)
(* Bounds of the model                                                      *)
(***************************************************************************)
\* number of academic years of the board (the program builds 4)
NumYears == 1
\* number of state updates (setAcademicYears / setStagedModules) in a behaviour
MaxMutations == 2
\* number of state updates in a behaviour of the editing operations alone
MaxEdits == 4
\* validation runs that may be awaiting the catalog at the same time
MaxInFlight == 2
\* catalog lookups that may fail (throw) in a behaviour
MaxFail == 1
\* granularity of the clock, in milliseconds
TickMs == 400

(***************************************************************************)
(* Program constants                                                        *)
(***************************************************************************)
\* setTimeout(checkAllConstraints, 800)
DebounceMs == 800
\* startAcademicYear = '2024/2025', parsed by parseAcademicYear
DefaultStartYear == 2024
\* units of a module added by hand ({ code, title, units: 4 })
DefaultUnits == 4

Undefined == -1
NoSem == 0
NoToast == [message |-> "none"]
NoSep == "none"

Max(a, b) == IF a >= b THEN a ELSE b
Min(a, b) == IF a <= b THEN a ELSE b

(***************************************************************************)
(* The course catalog (backend; answers of /modules/check-prereqs,          *)
(* /modules/{code}/offered and of the "courses" table of a generated plan)  *)
(***************************************************************************)
Codes == {"CS1101S", "CS2040S", "CFG1002"}

\* prerequisite set of a course (every member is required)
PrereqOf(code) ==
  CASE code = "CS2040S" -> {"CS1101S"}
    [] code = "CFG1002" -> {"CS2040S"}
    [] code = "CS2103T" -> {"CS2101"}
    [] code = "CS2101" -> {"CS2103T"}
    [] OTHER -> {}

\* semesters in which the course is offered
OfferedIn(code, semester) ==
  CASE code = "CS1101S" -> semester = 1
    [] code = "CS2040S" -> TRUE
    [] code = "CFG1002" -> semester = 2
    [] code \in {"GEA1000", "ES2660", "MA1521", "MA1522", "ST2334"} -> TRUE
    [] code \in {"CS2103T", "CS2101"} -> TRUE
    [] OTHER -> FALSE

\* plan.courses[code] of a generated plan
CourseInfo(code) ==
  CASE code = "CFG1002" -> [title |-> "Career Catalyst", credit |-> 2, fluff |-> TRUE]
    [] code = "CS1101S" -> [title |-> "Programming Methodology", credit |-> 4, fluff |-> FALSE]
    [] OTHER -> [title |-> "Data Structures and Algorithms", credit |-> 4, fluff |-> FALSE]

\* POST /modules/check-prereqs
checkPrerequisites(moduleCode, completedModules) ==
  [satisfied |-> PrereqOf(moduleCode) \subseteq completedModules,
   missing   |-> PrereqOf(moduleCode) \ completedModules]

\* GET /modules/{moduleCode}/offered?semester={semester}
checkModuleOffered(moduleCode, semester) ==
  [module_code |-> moduleCode,
   offered     |-> OfferedIn(moduleCode, semester),
   semester    |-> semester]

(***************************************************************************)
(* State                                                                    *)
(***************************************************************************)
VARIABLES
  academicYears,       \* the plan: sequence of years, each with its semesters
  stagedModules,       \* the exempted courses
  prereqViolations,    \* published map code -> missing prerequisites
  offeringViolations,  \* published map code -> message
  toast,               \* the notification shown, or NoToast
  shakingSemId,        \* the semester that shakes after a rejected drop
  timers,              \* pending setTimeout(checkAllConstraints) callbacks
  runs,                \* validation runs that started and did not publish yet
  planVersion,         \* identity of the rendered (academicYears, stagedModules)
  sinceMutation,       \* milliseconds since the plan state was last set
  lastPublished,       \* the run that published last, and the version then
  lookupFailures,      \* catalog lookups that failed so far
  mutationsLeft,       \* plan mutations the behaviour may still make
  currentSemester,     \* the currentSemester prop, a string of characters
  checklist,           \* the requirement rows of the last render of the checklist
  payload,             \* the records last saved or exported, and the plan they were made from
  scheduler,           \* the plan generator: its request and the assignment built so far
  startAcademicYear,   \* the startAcademicYear prop, a string of characters
  generatedPlan        \* the generatedPlan prop: the last generated plan, or NoPlan

vars == <<academicYears, stagedModules, prereqViolations, offeringViolations,
          toast, shakingSemId, timers, runs, planVersion, sinceMutation,
          lastPublished, lookupFailures, mutationsLeft, currentSemester, checklist,
          payload, scheduler, startAcademicYear, generatedPlan>>

\* the operations of the board set neither the prop, nor the rendered rows, nor
\* the records handed out, and the plan generator runs apart from them
PropsUnchanged ==
  UNCHANGED <<currentSemester, checklist, payload, scheduler, startAcademicYear,
              generatedPlan>>

EmptyMap == [c \in {} |-> {}]

\* const DEFAULT_PLAN, after the startAcademicYear effect of the first render
DEFAULT_PLAN ==
  [i \in 1..NumYears |->
    [year |-> i,
     academicYear |-> DefaultStartYear + (i - 1),
     totalUnits |-> 0,
     semesters |-> <<
       [id |-> (i - 1) * 2 + 1, name |-> "Semester 1", units |-> 0,
        modules |-> <<>>, isExchange |-> FALSE],
       [id |-> (i - 1) * 2 + 2, name |-> "Semester 2", units |-> 0,
        modules |-> <<>>, isExchange |-> FALSE] >>]]

\* useState<StagedModule[]>([{ id: '2', code: 'MA1301', ... }])
InitialStaged == << [id |-> "2", code |-> "MA1301", type |-> "exempted", mcs |-> 4] >>

(***************************************************************************)
(* Helpers on the plan                                                      *)
(***************************************************************************)
\* sem.name.includes('1')
Includes1(name) == name \in {"Semester 1", "Special Term 1"}

SemNumRegularOnly(sem) == IF sem.name = "Semester 1" THEN 1 ELSE 2

\* sem.name.includes('1') ? 1 : 2
SemNum(sem) == IF Includes1(sem.name) THEN 1 ELSE 2

\* year.year * 10 + (sem.name.includes('1') ? 1 : 2)
SemOrder(year, sem) == year.year * 10 + SemNum(sem)

\* modules.some(m => m.code === code)
HasCode(modules, code) == \E k \in 1..Len(modules) : modules[k].code = code

\* every (year index, semester index) of a plan
Slots(years) ==
  {sl \in (1..Len(years)) \X (1..4) : sl[2] <= Len(years[sl[1]].semesters)}

\* every placement (year index, semester index, module index) of a plan
Placements(years) ==
  UNION {{<<sl[1], sl[2], k>> :
            k \in 1..Len(years[sl[1]].semesters[sl[2]].modules)} : sl \in Slots(years)}

ModAt(years, p) == years[p[1]].semesters[p[2]].modules[p[3]]

SemIds(years) == {years[sl[1]].semesters[sl[2]].id : sl \in Slots(years)}

\* the codes held by the semester with this id
CodesOfSem(years, semId) ==
  {ModAt(years, p).code : p \in {q \in Placements(years) :
                                   years[q[1]].semesters[q[2]].id = semId}}

SemAt(years, sl) == years[sl[1]].semesters[sl[2]]

\* the slot of the semester with this id (ids are unique within a plan)
SlotOfId(years, semId) == CHOOSE sl \in Slots(years) : SemAt(years, sl).id = semId

StagedCodes(staged) == {staged[i].code : i \in 1..Len(staged)}

\* prev.map(year => ({...year, semesters: year.semesters.map(f)}))
MapSemesters(years, f(_)) ==
  [y \in 1..Len(years) |->
    [years[y] EXCEPT !.semesters =
      [s \in 1..Len(years[y].semesters) |-> f(years[y].semesters[s])]]]

\* modules.filter(m => m.code !== code)
FilterCode(modules, code) == SelectSeq(modules, LAMBDA m : m.code # code)

\* modules.findIndex(m => m.code === code), 0-based, -1 when absent
FindIndex(modules, code) ==
  IF HasCode(modules, code)
    THEN (CHOOSE k \in 1..Len(modules) :
            /\ modules[k].code = code
            /\ \A j \in 1..(k - 1) : modules[j].code # code) - 1
    ELSE -1

\* modules.splice(index, 0, item) with a 0-based index
SpliceInsert(modules, index, item) ==
  IF index >= Len(modules)
    THEN Append(modules, item)
    ELSE SubSeq(modules, 1, index) \o <<item>> \o SubSeq(modules, index + 1, Len(modules))

\* modules.splice(index, 1) with a 0-based index: the remaining list
SpliceRemove(modules, index) ==
  SubSeq(modules, 1, index) \o SubSeq(modules, index + 2, Len(modules))

(***************************************************************************)
(* checkAllConstraints                                                      *)
(***************************************************************************)
\* the loop "Get all modules from EARLIER semesters" plus the staged modules
CompletedBeforeInclusive(years, staged, semOrder) ==
  {ModAt(years, p).code :
     p \in {q \in Placements(years) :
              SemOrder(years[q[1]], SemAt(years, <<q[1], q[2]>>)) <= semOrder}}
  \cup StagedCodes(staged)

CompletedBeforeNoStaged(years, staged, semOrder) ==
  {ModAt(years, p).code :
     p \in {q \in Placements(years) :
              SemOrder(years[q[1]], SemAt(years, <<q[1], q[2]>>)) < semOrder}}

CompletedBefore(years, staged, semOrder) ==
  {ModAt(years, p).code :
     p \in {q \in Placements(years) :
              SemOrder(years[q[1]], SemAt(years, <<q[1], q[2]>>)) < semOrder}}
  \cup StagedCodes(staged)

\* the body of sem.modules.map(async (mod) => ...) for one module; failP and
\* failO are the placements whose lookup throws (caught and ignored);
\* pRequests/oRequests log the lookups sent, pSets/oSets the placements on
\* whose account pViolations.set / oViolations.set was called
CheckModuleFailClosed(acc, years, staged, p, failP, failO) ==
  LET year == years[p[1]]
      sem == SemAt(years, <<p[1], p[2]>>)
      mod == ModAt(years, p)
      semNum == SemNum(sem)
      completedBefore == CompletedBefore(years, staged, SemOrder(year, sem))
      result == checkPrerequisites(mod.code, completedBefore)
      offering == checkModuleOffered(mod.code, semNum)
      pViolates == p \in failP \/ (~result.satisfied /\ result.missing # {})
      oViolates == p \in failO \/ ~offering.offered
      message == [text |-> "Not offered in Semester", semNum |-> semNum]
  IN IF mod.fluff THEN acc
     ELSE [pViolations |->
             IF pViolates THEN (mod.code :> result.missing) @@ acc.pViolations
                          ELSE acc.pViolations,
           oViolations |->
             IF oViolates THEN (mod.code :> message) @@ acc.oViolations
                          ELSE acc.oViolations,
           pRequests |-> acc.pRequests \cup
             {[slot |-> p, module_code |-> mod.code, completed_modules |-> completedBefore]},
           oRequests |-> acc.oRequests \cup
             {[slot |-> p, module_code |-> mod.code, semester |-> semNum]},
           pSets |-> IF pViolates THEN acc.pSets \cup {p} ELSE acc.pSets,
           oSets |-> IF oViolates THEN acc.oSets \cup {p} ELSE acc.oSets]

CheckModuleNoSkip(acc, years, staged, p, failP, failO) ==
  LET year == years[p[1]]
      sem == SemAt(years, <<p[1], p[2]>>)
      mod == ModAt(years, p)
      semNum == SemNum(sem)
      completedBefore == CompletedBefore(years, staged, SemOrder(year, sem))
      result == checkPrerequisites(mod.code, completedBefore)
      offering == checkModuleOffered(mod.code, semNum)
      pViolates == p \notin failP /\ ~result.satisfied /\ result.missing # {}
      oViolates == p \notin failO /\ ~offering.offered
      message == [text |-> "Not offered in Semester", semNum |-> semNum]
  IN [pViolations |->
             IF pViolates THEN (mod.code :> result.missing) @@ acc.pViolations
                          ELSE acc.pViolations,
           oViolations |->
             IF oViolates THEN (mod.code :> message) @@ acc.oViolations
                          ELSE acc.oViolations,
           pRequests |-> acc.pRequests \cup
             {[slot |-> p, module_code |-> mod.code, completed_modules |-> completedBefore]},
           oRequests |-> acc.oRequests \cup
             {[slot |-> p, module_code |-> mod.code, semester |-> semNum]},
           pSets |-> IF pViolates THEN acc.pSets \cup {p} ELSE acc.pSets,
           oSets |-> IF oViolates THEN acc.oSets \cup {p} ELSE acc.oSets]

CheckModule(acc, years, staged, p, failP, failO) ==
  LET year == years[p[1]]
      sem == SemAt(years, <<p[1], p[2]>>)
      mod == ModAt(years, p)
      semNum == SemNum(sem)
      completedBefore == CompletedBefore(years, staged, SemOrder(year, sem))
      result == checkPrerequisites(mod.code, completedBefore)
      offering == checkModuleOffered(mod.code, semNum)
      pViolates == p \notin failP /\ ~result.satisfied /\ result.missing # {}
      oViolates == p \notin failO /\ ~offering.offered
      message == [text |-> "Not offered in Semester", semNum |-> semNum]
  IN IF mod.fluff THEN acc
     ELSE [pViolations |->
             IF pViolates THEN (mod.code :> result.missing) @@ acc.pViolations
                          ELSE acc.pViolations,
           oViolations |->
             IF oViolates THEN (mod.code :> message) @@ acc.oViolations
                          ELSE acc.oViolations,
           pRequests |-> acc.pRequests \cup
             {[slot |-> p, module_code |-> mod.code, completed_modules |-> completedBefore]},
           oRequests |-> acc.oRequests \cup
             {[slot |-> p, module_code |-> mod.code, semester |-> semNum]},
           pSets |-> IF pViolates THEN acc.pSets \cup {p} ELSE acc.pSets,
           oSets |-> IF oViolates THEN acc.oSets \cup {p} ELSE acc.oSets]

\* the nested loops over years, semesters and the modules of a semester
RECURSIVE CheckFrom(_, _, _, _, _, _, _, _)
CheckFrom(acc, years, staged, y, s, k, failP, failO) ==
  IF y > Len(years) THEN acc
  ELSE IF s > Len(years[y].semesters)
    THEN CheckFrom(acc, years, staged, y + 1, 1, 1, failP, failO)
  ELSE IF k > Len(years[y].semesters[s].modules)
    THEN CheckFrom(acc, years, staged, y, s + 1, 1, failP, failO)
  ELSE CheckFrom(CheckModule(acc, years, staged, <<y, s, k>>, failP, failO),
                 years, staged, y, s, k + 1, failP, failO)

\* checkAllConstraints on the plan captured by the effect's closure
checkAllConstraints(years, staged, failP, failO) ==
  CheckFrom([pViolations |-> EmptyMap, oViolations |-> EmptyMap,
             pRequests |-> {}, oRequests |-> {}, pSets |-> {}, oSets |-> {}],
            years, staged, 1, 1, 1, failP, failO)

(***************************************************************************)
(* Rendering: every call of setAcademicYears / setStagedModules renders the *)
(* board again; the effect on [academicYears, stagedModules] cleans up      *)
(* (clearTimeout) and schedules checkAllConstraints after DebounceMs, its   *)
(* closure holding the state of that render.                                *)
(***************************************************************************)
NewTimer(years, staged, version) ==
  [remaining |-> DebounceMs, version |-> version, years |-> years, staged |-> staged]

\* return () => clearTimeout(timer); const timer = setTimeout(...)
ScheduleCheckKeepOld(pending, timer) == pending \cup {timer}

ScheduleCheck(pending, timer) == {timer}

\* the state is set and the board renders again
RenderWith(years, staged) ==
  /\ mutationsLeft > 0
  /\ mutationsLeft' = mutationsLeft - 1
  /\ UNCHANGED <<currentSemester, checklist, payload, scheduler>>
  /\ academicYears' = years
  /\ stagedModules' = staged
  /\ planVersion' = planVersion + 1
  /\ timers' = ScheduleCheck(timers, NewTimer(years, staged, planVersion + 1))
  /\ sinceMutation' = 0

SetPlan(years, staged) ==
  /\ RenderWith(years, staged)
  /\ UNCHANGED <<startAcademicYear, generatedPlan>>

\* no plan was generated
NoPlan == <<>>

\* the checklist before the requirement rows are computed
NotRendered == <<>>

\* nothing was saved or exported yet
NoPayload == <<>>

\* no plan was asked for
NoRequest == <<>>

\* the board after its first render
Mounted ==
  /\ academicYears = DEFAULT_PLAN
  /\ stagedModules = InitialStaged
  /\ prereqViolations = EmptyMap
  /\ offeringViolations = EmptyMap
  /\ toast = NoToast
  /\ shakingSemId = NoSem
  /\ timers = {NewTimer(DEFAULT_PLAN, InitialStaged, 0)}
  /\ runs = {}
  /\ planVersion = 0
  /\ sinceMutation = 0
  /\ lastPublished = <<>>
  /\ lookupFailures = 0
  /\ currentSemester = <<"Y", "1", "S", "1">>
  /\ checklist = NotRendered
  /\ payload = NoPayload
  /\ scheduler = NoRequest
  /\ startAcademicYear = <<"2", "0", "2", "4", "/", "2", "0", "2", "5">>
  /\ generatedPlan = NoPlan

Init ==
  /\ Mounted
  /\ mutationsLeft = MaxMutations

(***************************************************************************)
(* The clock and the validation runs                                        *)
(***************************************************************************)
Tick ==
  /\ \/ sinceMutation < DebounceMs
     \/ \E t \in timers : t.remaining > 0
  /\ sinceMutation' = Min(DebounceMs, sinceMutation + TickMs)
  /\ timers' = {[t EXCEPT !.remaining = Max(0, t.remaining - TickMs)] : t \in timers}
  /\ UNCHANGED <<academicYears, stagedModules, prereqViolations, offeringViolations,
                 toast, shakingSemId, runs, planVersion, lastPublished, lookupFailures,
                 mutationsLeft>>
  /\ PropsUnchanged

\* the timer fires: checkAllConstraints starts on the closure's plan; the
\* catalog answers are awaited while the run is in "runs"
StartRun(t, failP, failO) ==
  LET res == checkAllConstraints(t.years, t.staged, failP, failO)
  IN [version |-> t.version, years |-> t.years, staged |-> t.staged,
      failP |-> failP, failO |-> failO,
      startedAtVersion |-> planVersion, quiet |-> sinceMutation,
      pViolations |-> res.pViolations, oViolations |-> res.oViolations,
      pRequests |-> res.pRequests, oRequests |-> res.oRequests,
      pSets |-> res.pSets, oSets |-> res.oSets]

TimerFire ==
  /\ Cardinality(runs) < MaxInFlight
  /\ \E t \in timers :
       /\ t.remaining = 0
       /\ \E failP \in SUBSET Placements(t.years), failO \in SUBSET Placements(t.years) :
            /\ lookupFailures + Cardinality(failP) + Cardinality(failO) <= MaxFail
            /\ lookupFailures' = lookupFailures + Cardinality(failP) + Cardinality(failO)
            /\ runs' = runs \cup {StartRun(t, failP, failO)}
       /\ timers' = timers \ {t}
  /\ UNCHANGED <<academicYears, stagedModules, prereqViolations, offeringViolations,
                 toast, shakingSemId, planVersion, sinceMutation, lastPublished,
                 mutationsLeft>>
  /\ PropsUnchanged

\* setPrereqViolations(pViolations); setOfferingViolations(oViolations)
Publish ==
  \E r \in runs :
    /\ prereqViolations' = r.pViolations
    /\ offeringViolations' = r.oViolations
    /\ lastPublished' = <<[run |-> r, atVersion |-> planVersion]>>
    /\ runs' = runs \ {r}
    /\ UNCHANGED <<academicYears, stagedModules, toast, shakingSemId, timers,
                   planVersion, sinceMutation, lookupFailures, mutationsLeft>>
    /\ PropsUnchanged

(***************************************************************************)
(* Plan operations                                                          *)
(***************************************************************************)
UiUnchanged ==
  UNCHANGED <<prereqViolations, offeringViolations, runs, lastPublished, lookupFailures>>

\* the reordering without the index adjustment after the removal
ReorderSemUnadjusted(sem, targetSemId, code, insertAtIndex) ==
  IF sem.id = targetSemId
    THEN LET currentIndex == FindIndex(sem.modules, code)
         IN IF currentIndex # -1 /\ currentIndex # insertAtIndex
              THEN [sem EXCEPT !.modules =
                      SpliceInsert(SpliceRemove(sem.modules, currentIndex), insertAtIndex,
                                   sem.modules[currentIndex + 1])]
              ELSE sem
    ELSE sem

\* handleDrop, branch "reordering within the same semester"
ReorderSem(sem, targetSemId, code, insertAtIndex) ==
  IF sem.id = targetSemId
    THEN LET currentIndex == FindIndex(sem.modules, code)
         IN IF currentIndex # -1 /\ currentIndex # insertAtIndex
              THEN LET movedModule == sem.modules[currentIndex + 1]
                       rest == SpliceRemove(sem.modules, currentIndex)
                       adjustedIndex == IF currentIndex < insertAtIndex
                                          THEN insertAtIndex - 1 ELSE insertAtIndex
                   IN [sem EXCEPT !.modules = SpliceInsert(rest, adjustedIndex, movedModule)]
              ELSE sem
    ELSE sem

\* handleDrop: moduleExistsInPlan
ModuleExistsInPlanFirstSem(years, code, sourceId) ==
  \E sl \in Slots(years) :
    /\ sl[2] = 1
    /\ SemAt(years, sl).id # sourceId
    /\ HasCode(SemAt(years, sl).modules, code)

ModuleExistsInPlan(years, code, sourceId) ==
  \E sl \in Slots(years) :
    /\ SemAt(years, sl).id # sourceId
    /\ HasCode(SemAt(years, sl).modules, code)

\* handleDrop, "Add module to target semester at specified index"
MoveSem(sem, code, sourceId, targetSemId, insertAtIndex) ==
  IF sem.id = sourceId
    THEN [sem EXCEPT !.modules = FilterCode(sem.modules, code),
                     !.units = sem.units - 4]
  ELSE IF sem.id = targetSemId
    THEN IF HasCode(sem.modules, code) THEN sem
         ELSE LET newModule == [code |-> code, title |-> code,
                                units |-> DefaultUnits, fluff |-> FALSE]
              IN [sem EXCEPT
                    !.modules = IF insertAtIndex # Undefined /\ insertAtIndex >= 0
                                  THEN SpliceInsert(sem.modules, insertAtIndex, newModule)
                                  ELSE Append(sem.modules, newModule),
                    !.units = sem.units + 4]
  ELSE sem

\* the largest index a drag can carry (dragOverIndex of any hovered card)
MaxDragIndex(years) ==
  LET lens == {Len(SemAt(years, sl).modules) : sl \in Slots(years)}
  IN CHOOSE n \in lens : \A m \in lens : m <= n

\* handleDrop(e, targetSemId, insertAtIndex) with draggingModule =
\* {code, source: 'semester', sourceId} set by handleDragStart on a card
Drop(code, sourceId, targetSemId, insertAtIndex) ==
  IF sourceId = targetSemId
    THEN IF insertAtIndex # Undefined
           THEN /\ SetPlan(MapSemesters(academicYears,
                             LAMBDA sem : ReorderSem(sem, targetSemId, code, insertAtIndex)),
                           stagedModules)
                /\ UNCHANGED <<toast, shakingSemId>>
                /\ UiUnchanged
           ELSE UNCHANGED vars
  ELSE IF ModuleExistsInPlan(academicYears, code, sourceId)
    THEN /\ shakingSemId' = targetSemId
         /\ toast' = [message |-> "already exists in your study plan", code |-> code,
                      type |-> "error"]
         /\ UNCHANGED <<academicYears, stagedModules, timers, planVersion, sinceMutation,
                        mutationsLeft>>
         /\ PropsUnchanged
         /\ UiUnchanged
  ELSE /\ SetPlan(MapSemesters(academicYears,
                    LAMBDA sem : MoveSem(sem, code, sourceId, targetSemId, insertAtIndex)),
                  stagedModules)
       /\ UNCHANGED <<toast, shakingSemId>>
       /\ UiUnchanged

handleDrop ==
  \E sourceId \in SemIds(academicYears), targetSemId \in SemIds(academicYears) :
  \E code \in CodesOfSem(academicYears, sourceId) :
  \E insertAtIndex \in {Undefined} \cup (0..MaxDragIndex(academicYears)) :
    Drop(code, sourceId, targetSemId, insertAtIndex)

\* handleModuleSelect(moduleCode, title) of the search box of semester semId;
\* moduleCode is one of the displayed searchResults
SelectSem(sem, semId, moduleCode, title) ==
  IF sem.id = semId
    THEN IF HasCode(sem.modules, moduleCode) THEN sem
         ELSE [sem EXCEPT
                 !.modules = Append(sem.modules,
                    [code |-> moduleCode, title |-> title,
                     units |-> DefaultUnits, fluff |-> FALSE]),
                 !.units = sem.units + 4]
    ELSE sem

handleModuleSelect ==
  \E semId \in SemIds(academicYears), moduleCode \in Codes :
    /\ SetPlan(MapSemesters(academicYears,
                 LAMBDA sem : SelectSem(sem, semId, moduleCode, CourseInfo(moduleCode).title)),
               stagedModules)
    /\ UNCHANGED <<toast, shakingSemId>>
    /\ UiUnchanged

\* the "Remove module" button of a card
DeleteSem(s, semId, code) ==
  IF s.id = semId
    THEN [s EXCEPT !.modules = FilterCode(s.modules, code), !.units = s.units - 4]
    ELSE s

deleteModule ==
  \E semId \in SemIds(academicYears) :
  \E code \in CodesOfSem(academicYears, semId) :
    /\ SetPlan(MapSemesters(academicYears, LAMBDA s : DeleteSem(s, semId, code)),
               stagedModules)
    /\ UNCHANGED <<toast, shakingSemId>>
    /\ UiUnchanged

\* Date.now().toString(): later clicks get later stamps
NowId == "t" \o ToString(planVersion)

\* onClick of a result of the "Add Exempted Course" search
addExemptedCourse ==
  \E code \in Codes :
    LET newModule == [id |-> NowId, code |-> code, type |-> "exempted",
                      mcs |-> CourseInfo(code).credit]
    IN /\ SetPlan(academicYears, Append(stagedModules, newModule))
       /\ toast' = [message |-> "added as exempted course", code |-> code,
                   type |-> "success"]
       /\ UNCHANGED shakingSemId
       /\ UiUnchanged

\* the "Remove exempted course" button
deleteExemptedCourse ==
  \E i \in 1..Len(stagedModules) :
    LET mod == stagedModules[i]
    IN /\ SetPlan(academicYears, SelectSeq(stagedModules, LAMBDA m : m.id # mod.id))
       /\ toast' = [message |-> "removed from exempted courses", code |-> mod.code,
                   type |-> "success"]
       /\ UNCHANGED shakingSemId
       /\ UiUnchanged

\* addSpecialTerm(yearNum, termType)
AddTermToYearNoCheck(year, yearNum, termType) ==
  IF year.year = yearNum
    THEN [year EXCEPT !.semesters = Append(year.semesters,
            [id |-> yearNum * 100 + (IF termType = "Special Term 1" THEN 3 ELSE 4),
             name |-> termType, units |-> 0, modules |-> <<>>,
             isExchange |-> FALSE])]
    ELSE year

AddTermToYear(year, yearNum, termType) ==
  IF year.year = yearNum
    THEN IF \E s \in 1..Len(year.semesters) : year.semesters[s].name = termType
           THEN year
           ELSE [year EXCEPT !.semesters = Append(year.semesters,
                   [id |-> yearNum * 100 + (IF termType = "Special Term 1" THEN 3 ELSE 4),
                    name |-> termType, units |-> 0, modules |-> <<>>,
                    isExchange |-> FALSE])]
    ELSE year

addSpecialTerm ==
  \E yearNum \in 1..NumYears, termType \in {"Special Term 1", "Special Term 2"} :
    LET termExists == \E y \in 1..Len(academicYears) :
                        /\ academicYears[y].year = yearNum
                        /\ \E s \in 1..Len(academicYears[y].semesters) :
                             academicYears[y].semesters[s].name = termType
    IN /\ SetPlan([y \in 1..Len(academicYears) |->
                     AddTermToYear(academicYears[y], yearNum, termType)],
                  stagedModules)
       /\ toast' = IF termExists
                     THEN [message |-> "already exists in Year", term |-> termType,
                           year |-> yearNum, type |-> "error"]
                     ELSE toast
       /\ UNCHANGED shakingSemId
       /\ UiUnchanged

\* deleteSpecialTerm(yearNum, semId), the button shown on special terms
DeleteTermOfYear(year, yearNum, semId) ==
  IF year.year = yearNum
    THEN [year EXCEPT !.semesters = SelectSeq(year.semesters, LAMBDA s : s.id # semId)]
    ELSE year

deleteSpecialTerm ==
  \E sl \in Slots(academicYears) :
    LET year == academicYears[sl[1]]
        sem == SemAt(academicYears, sl)
    IN /\ sem.name \in {"Special Term 1", "Special Term 2"}
       /\ SetPlan([y \in 1..Len(academicYears) |->
                     DeleteTermOfYear(academicYears[y], year.year, sem.id)],
                  stagedModules)
       /\ toast' = [message |-> "Special term removed", type |-> "success"]
       /\ UNCHANGED shakingSemId
       /\ UiUnchanged

(***************************************************************************)
(* Loading a generated plan (the effect on [generatedPlan, ...])            *)
(***************************************************************************)
\* `y${yearNum}s${n}`
SemKey(yearNum, n) == "y" \o ToString(yearNum) \o "s" \o ToString(n)

SemKeys == {SemKey(y, n) : y \in 1..NumYears, n \in 1..2}

\* SEP_OPTIONS: Year 2 Semester 1 and later
SepKeys == {SemKey(y, n) : y \in 2..NumYears, n \in 1..2}

\* responses of the plan generator: CS1101S fixed at y1s1, CS2040S later,
\* CFG1002 either placed with CS1101S or exempted, an optional SEP semester
GeneratedPlans ==
  LET all == {[plan |-> [key \in {"y1s1", k} |->
                 IF key = "y1s1"
                   THEN IF fluffPlaced THEN <<"CS1101S", "CFG1002">> ELSE <<"CS1101S">>
                   ELSE <<"CS2040S">>],
               sep_semester |-> sep,
               exempted |-> IF fluffPlaced THEN <<>> ELSE <<"CFG1002">>] :
                k \in SemKeys \ {"y1s1"}, fluffPlaced \in BOOLEAN,
                sep \in {NoSep} \cup SepKeys}
  IN {g \in all : g.sep_semester \notin DOMAIN g.plan}

\* plan.plan[key] || []
CodesOfKey(plan, key) == IF key \in DOMAIN plan.plan THEN plan.plan[key] ELSE <<>>

\* the conversion with the default of 4 units for every course
convertModulesDefaultUnits(codes) ==
  [i \in 1..Len(codes) |->
    [code |-> codes[i], title |-> CourseInfo(codes[i]).title,
     units |-> 4, fluff |-> CourseInfo(codes[i]).fluff]]

\* convertModules(codes)
convertModules(codes) ==
  [i \in 1..Len(codes) |->
    [code |-> codes[i], title |-> CourseInfo(codes[i]).title,
     units |-> CourseInfo(codes[i]).credit, fluff |-> CourseInfo(codes[i]).fluff]]

\* modules.reduce((sum, m) => sum + (m.units || 4), 0)
RECURSIVE SumUnits(_)
SumUnits(modules) ==
  IF modules = <<>> THEN 0
  ELSE (IF Head(modules).units = 0 THEN 4 ELSE Head(modules).units)
       + SumUnits(Tail(modules))

\* newAcademicYears of the generatedPlan effect, for the years 1..numYears
newAcademicYears(plan, startYear, numYears) ==
  [yearNum \in 1..numYears |->
    LET sem1Key == SemKey(yearNum, 1)
        sem2Key == SemKey(yearNum, 2)
        sem1Modules == convertModules(CodesOfKey(plan, sem1Key))
        sem2Modules == convertModules(CodesOfKey(plan, sem2Key))
        sem1Units == SumUnits(sem1Modules)
        sem2Units == SumUnits(sem2Modules)
    IN [year |-> yearNum,
        academicYear |-> startYear + yearNum - 1,
        totalUnits |-> sem1Units + sem2Units,
        semesters |-> <<
          [id |-> yearNum * 10 + 1, name |-> "Semester 1", units |-> sem1Units,
           modules |-> sem1Modules, isExchange |-> sem1Key = plan.sep_semester],
          [id |-> yearNum * 10 + 2, name |-> "Semester 2", units |-> sem2Units,
           modules |-> sem2Modules, isExchange |-> sem2Key = plan.sep_semester] >>]]

\* the same on the board of NumYears years
GeneratedYears(plan, startYear) == newAcademicYears(plan, startYear, NumYears)

\* newStaged of the generatedPlan effect
GeneratedStaged(plan) ==
  [i \in 1..Len(plan.exempted) |->
    [id |-> plan.exempted[i], code |-> plan.exempted[i], type |-> "exempted",
     mcs |-> CourseInfo(plan.exempted[i]).credit]]

\* "Process exempted modules": if (plan.exempted && Array.isArray(plan.exempted))
StagedAfterLoad(plan, staged) ==
  IF "exempted" \in DOMAIN plan THEN GeneratedStaged(plan) ELSE staged

(***************************************************************************)
(* progressionStats                                                         *)
(***************************************************************************)
\* the characters 0..9 and their values (parseInt of one digit)
DigitChars == {"0", "1", "2", "3", "4", "5", "6", "7", "8", "9"}

DigitValue(ch) ==
  CASE ch = "0" -> 0 [] ch = "1" -> 1 [] ch = "2" -> 2 [] ch = "3" -> 3 [] ch = "4" -> 4
    [] ch = "5" -> 5 [] ch = "6" -> 6 [] ch = "7" -> 7 [] ch = "8" -> 8 [] ch = "9" -> 9

\* currentSemester.match(/Y(\d)S(\d)/): the positions where the pattern matches
\* (a string is the sequence of its characters)
PointerMatches(str) ==
  {i \in 1..(Len(str) - 3) :
     /\ str[i] = "Y" /\ str[i + 1] \in DigitChars
     /\ str[i + 2] = "S" /\ str[i + 3] \in DigitChars}

\* { currentYearNum, currentSemNum } of the currentSemester prop
parseCurrentSemester(str) ==
  IF str = <<"Y", "0", "S", "0">> THEN <<0, 0>>
  ELSE IF PointerMatches(str) # {}
    THEN LET i == CHOOSE j \in PointerMatches(str) : \A k \in PointerMatches(str) : j <= k
         IN <<DigitValue(str[i + 1]), DigitValue(str[i + 3])>>
  ELSE <<1, 1>>

\* values of the currentSemester prop
CurrentSemesters ==
  {<<"Y", "0", "S", "0">>, <<"Y", "1", "S", "1">>, <<"Y", "1", "S", "2">>,
   <<"Y", "2", "S", "1">>, <<"Y", "1">>, <<>>}

RECURSIVE StatsStagedAsPlanned(_, _, _)
StatsStagedAsPlanned(acc, staged, i) ==
  IF i > Len(staged) THEN acc
  ELSE LET mod == staged[i]
       IN StatsStagedAsPlanned(
            IF mod.type = "exempted" /\ mod.code \notin acc.allCodes
              THEN [acc EXCEPT !.planned = @ + (IF mod.mcs = 0 THEN 4 ELSE mod.mcs),
                               !.allCodes = @ \cup {mod.code}]
              ELSE acc,
            staged, i + 1)

\* "1. Process Exempted (Always Completed)"
RECURSIVE StatsStaged(_, _, _)
StatsStaged(acc, staged, i) ==
  IF i > Len(staged) THEN acc
  ELSE LET mod == staged[i]
       IN StatsStaged(
            IF mod.type = "exempted" /\ mod.code \notin acc.allCodes
              THEN [acc EXCEPT !.completed = @ + (IF mod.mcs = 0 THEN 4 ELSE mod.mcs),
                               !.allCodes = @ \cup {mod.code}]
              ELSE acc,
            staged, i + 1)

RECURSIVE StatsFromCurrentDone(_, _, _, _, _, _)
StatsFromCurrentDone(acc, years, y, s, k, currentSemId) ==
  IF y > Len(years) THEN acc
  ELSE IF s > Len(years[y].semesters)
    THEN StatsFromCurrentDone(acc, years, y + 1, 1, 1, currentSemId)
  ELSE IF k > Len(years[y].semesters[s].modules)
    THEN StatsFromCurrentDone(acc, years, y, s + 1, 1, currentSemId)
  ELSE LET semId == years[y].year * 10 + (IF Includes1(years[y].semesters[s].name) THEN 1 ELSE 2)
           mod == years[y].semesters[s].modules[k]
           mcs == IF mod.units = 0 THEN 4 ELSE mod.units
       IN StatsFromCurrentDone(
            IF mod.code \notin acc.allCodes
              THEN [acc EXCEPT
                      !.completed = IF semId <= currentSemId THEN @ + mcs ELSE @,
                      !.planned = IF semId > currentSemId THEN @ + mcs ELSE @,
                      !.allCodes = @ \cup {mod.code}]
              ELSE acc,
            years, y, s, k + 1, currentSemId)

\* "2. Process Academic Years"
RECURSIVE StatsFrom(_, _, _, _, _, _)
StatsFrom(acc, years, y, s, k, currentSemId) ==
  IF y > Len(years) THEN acc
  ELSE IF s > Len(years[y].semesters)
    THEN StatsFrom(acc, years, y + 1, 1, 1, currentSemId)
  ELSE IF k > Len(years[y].semesters[s].modules)
    THEN StatsFrom(acc, years, y, s + 1, 1, currentSemId)
  ELSE LET semId == years[y].year * 10 + (IF Includes1(years[y].semesters[s].name) THEN 1 ELSE 2)
           mod == years[y].semesters[s].modules[k]
           mcs == IF mod.units = 0 THEN 4 ELSE mod.units
       IN StatsFrom(
            IF mod.code \notin acc.allCodes
              THEN [acc EXCEPT
                      !.completed = IF semId < currentSemId THEN @ + mcs ELSE @,
                      !.current = IF semId = currentSemId THEN @ + mcs ELSE @,
                      !.planned = IF semId > currentSemId THEN @ + mcs ELSE @,
                      !.allCodes = @ \cup {mod.code}]
              ELSE acc,
            years, y, s, k + 1, currentSemId)

progressionStats(years, staged, currentYearNum, currentSemNum) ==
  LET currentSemId == currentYearNum * 10 + currentSemNum
      acc == StatsFrom(StatsStaged([completed |-> 0, current |-> 0, planned |-> 0,
                                    allCodes |-> {}], staged, 1),
                       years, 1, 1, 1, currentSemId)
  IN [completed |-> acc.completed, current |-> acc.current, planned |-> acc.planned,
      total |-> acc.completed + acc.current + acc.planned]

\* year.semesters.reduce((acc, sem) => acc + (sem.isExchange ? 0 : sem.modules.length * 4), 0)
RECURSIVE yearTotalUnitsFrom(_, _)
yearTotalUnitsFrom(semesters, i) ==
  IF i > Len(semesters) THEN 0
  ELSE (IF semesters[i].isExchange THEN 0 ELSE Len(semesters[i].modules) * 4)
       + yearTotalUnitsFrom(semesters, i + 1)

yearTotalUnits(year) == yearTotalUnitsFrom(year.semesters, 1)

\* the values of the current-semester pointer: Y0S0 (incoming) and YnSm
Pointers == {<<0, 0>>} \cup ((1..NumYears) \X (1..2))

(***************************************************************************)
(* The requirement checklist (checkRequirement and its rendering).  Course  *)
(* codes and requirement patterns are sequences of characters here.         *)
(***************************************************************************)
\* const REQUIREMENTS (category and the code of each course slot)
REQUIREMENTS ==
  <<[category |-> "Common Curriculum",
     courses |-> <<<<"C", "S", "1", "1", "0", "1", "S">>,
                   <<"E", "S", "2", "6", "6", "0">>,
                   <<"G", "E", "C", "%">>,
                   <<"G", "E", "A", "1", "0", "0", "0">>,
                   <<"G", "E", "S", "%">>,
                   <<"G", "E", "N", "%">>>>],
    [category |-> "Computer Science Foundation",
     courses |-> <<<<"C", "S", "1", "2", "3", "1", "S">>,
                   <<"C", "S", "2", "0", "3", "0", "S">>,
                   <<"C", "S", "2", "0", "4", "0", "S">>,
                   <<"C", "S", "2", "1", "0", "0">>,
                   <<"C", "S", "2", "1", "0", "6">>,
                   <<"C", "S", "3", "2", "3", "0">>>>],
    [category |-> "CS Breadth & Depth",
     courses |-> <<<<"F", "o", "c", "u", "s", " ", "4", "K">>,
                   <<"F", "o", "c", "u", "s", " ", "2">>,
                   <<"F", "o", "c", "u", "s", " ", "3">>,
                   <<"C", "S", "4", "%">>,
                   <<"C", "S", "4", "%">>,
                   <<"C", "S", "4", "%">>,
                   <<"I", "E", "/", "F", "Y", "P">>,
                   <<"P", "r", "o", "j", "e", "c", "t">>>>],
    [category |-> "Math & Sciences",
     courses |-> <<<<"M", "A", "1", "5", "2", "1">>,
                   <<"M", "A", "1", "5", "2", "2">>,
                   <<"S", "T", "2", "3", "3", "4">>>>],
    [category |-> "Unrestricted Electives",
     courses |-> <<<<"U", "E", " ", "1">>,
                   <<"U", "E", " ", "2">>,
                   <<"U", "E", " ", "3">>,
                   <<"U", "E", " ", "4">>,
                   <<"U", "E", " ", "5">>,
                   <<"U", "E", " ", "6">>,
                   <<"U", "E", " ", "7">>,
                   <<"U", "E", " ", "8">>,
                   <<"U", "E", " ", "9">>,
                   <<"U", "E", " ", "1", "0">>>>]>>

UpperChars ==
  {"A", "B", "C", "D", "E", "F", "G", "H", "I", "J", "K", "L", "M",
   "N", "O", "P", "Q", "R", "S", "T", "U", "V", "W", "X", "Y", "Z"}

\* length of the leading run of characters of str that belong to chars
RECURSIVE LeadingRun(_, _, _)
LeadingRun(str, chars, i) ==
  IF i <= Len(str) /\ str[i] \in chars THEN 1 + LeadingRun(str, chars, i + 1) ELSE 0

\* code.match(/^([A-Z]{2,4}\d{4})/): match ? match[1] : code
getBaseCodeNoSuffixCut(code) == code

getBaseCode(code) ==
  LET letters == LeadingRun(code, UpperChars, 1)
      digits == LeadingRun(code, DigitChars, letters + 1)
  IN IF letters >= 2 /\ letters <= 4 /\ digits >= 4
       THEN SubSeq(code, 1, letters + 4)
       ELSE code

\* str.endsWith('%')
EndsWithPercent(str) == Len(str) >= 1 /\ str[Len(str)] = "%"

\* str.slice(0, -1)
SliceLast(str) == SubSeq(str, 1, Len(str) - 1)

\* str.startsWith(prefix)
StartsWith(str, prefix) ==
  Len(prefix) <= Len(str) /\ SubSeq(str, 1, Len(prefix)) = prefix

\* parseInt of a string of digits (NaN, here -1, if it does not start with one)
RECURSIVE ParseDigits(_, _, _)
ParseDigits(str, i, acc) ==
  IF i <= Len(str) /\ str[i] \in DigitChars
    THEN ParseDigits(str, i + 1, acc * 10 + DigitValue(str[i]))
    ELSE acc

NaN == -1

parseInt(str) ==
  IF Len(str) >= 1 /\ str[1] \in DigitChars THEN ParseDigits(str, 1, 0) ELSE NaN

\* str.split('/')[0]
BeforeSlash(str) ==
  LET slashes == {i \in 1..Len(str) : str[i] = "/"}
  IN IF slashes = {} THEN str
     ELSE SubSeq(str, 1, (CHOOSE i \in slashes : \A j \in slashes : i <= j) - 1)

\* parseAcademicYear: "AY24/25" or "2024/2025"
parseAcademicYear(ayString) ==
  IF StartsWith(ayString, <<"A", "Y">>)
    THEN LET year == parseInt(BeforeSlash(SubSeq(ayString, 3, Len(ayString))))
         IN IF year = NaN THEN 2024 ELSE IF year < 100 THEN 2000 + year ELSE year
    ELSE LET year == parseInt(BeforeSlash(ayString))
         IN IF year = NaN THEN 2024 ELSE year

\* the generatedPlan effect: App sets the prop, the board converts the plan
loadGeneratedPlan ==
  \E plan \in GeneratedPlans :
    /\ generatedPlan' = plan
    /\ RenderWith(GeneratedYears(plan, parseAcademicYear(startAcademicYear)),
                  StagedAfterLoad(plan, stagedModules))
    /\ toast' = [message |-> "Study plan generated successfully!", type |-> "success"]
    /\ UNCHANGED <<shakingSemId, startAcademicYear>>
    /\ UiUnchanged

\* the values of the startAcademicYear prop: App's initial value and an option
\* of the sidebar
StartAcademicYears ==
  {<<"2", "0", "2", "4", "/", "2", "0", "2", "5">>, <<"A", "Y", "2", "5", "/", "2", "6">>}

\* "Update academic year labels when startAcademicYear changes"
Relabel(years, startYear) ==
  [idx \in 1..Len(years) |-> [years[idx] EXCEPT !.academicYear = startYear + (idx - 1)]]

\* App passes another startAcademicYear: the label effect runs, and then the
\* generatedPlan effect, which has startAcademicYear among its dependencies
setStartAcademicYear ==
  \E ayString \in StartAcademicYears \ {startAcademicYear} :
    /\ startAcademicYear' = ayString
    /\ IF generatedPlan # NoPlan
         THEN /\ RenderWith(GeneratedYears(generatedPlan, parseAcademicYear(ayString)),
                            StagedAfterLoad(generatedPlan, stagedModules))
              /\ toast' = [message |-> "Study plan generated successfully!",
                           type |-> "success"]
         ELSE /\ RenderWith(Relabel(academicYears, parseAcademicYear(ayString)),
                            stagedModules)
              /\ UNCHANGED toast
    /\ UNCHANGED <<shakingSemId, generatedPlan>>
    /\ UiUnchanged

\* reqCode.split(' ')[1]
SecondWord(str) ==
  LET spaces == {i \in 1..Len(str) : str[i] = " "}
  IN IF spaces = {} THEN <<>>
     ELSE LET first == CHOOSE i \in spaces : \A j \in spaces : i <= j
              later == {j \in spaces : j > first}
              stop == IF later = {} THEN Len(str) + 1
                      ELSE CHOOSE i \in later : \A j \in later : i <= j
          IN SubSeq(str, first + 1, stop - 1)

\* const allTakenModules: the codes of past semesters and the staged codes
allTakenModulesWholePlan(years, staged, currentYearNum, currentSemNum) ==
  {ModAt(years, p).code : p \in Placements(years)} \cup StagedCodes(staged)

allTakenModules(years, staged, currentYearNum, currentSemNum) ==
  LET currentSemId == currentYearNum * 10 + currentSemNum
  IN {ModAt(years, p).code :
        p \in {q \in Placements(years) :
                 SemOrder(years[q[1]], SemAt(years, <<q[1], q[2]>>)) < currentSemId}}
     \cup StagedCodes(staged)

\* "Collect all modules consumed by other requirements"
Consumed(taken) ==
  {myCode \in taken :
     \E cat \in 1..Len(REQUIREMENTS) :
       /\ REQUIREMENTS[cat].category # "Unrestricted Electives"
       /\ \E k \in 1..Len(REQUIREMENTS[cat].courses) :
            LET c == REQUIREMENTS[cat].courses[k]
            IN \/ getBaseCode(myCode) = getBaseCode(c)
               \/ (EndsWithPercent(c) /\ StartsWith(myCode, SliceLast(c)))}

\* checkRequirement(reqCode) on the set of taken codes
checkRequirementNoOverflowOrder(reqCode, taken) ==
  LET reqBase == getBaseCode(reqCode)
  IN IF \E takenCode \in taken : getBaseCode(takenCode) = reqBase THEN TRUE
     ELSE IF EndsWithPercent(reqCode)
       THEN \E code \in taken : StartsWith(code, SliceLast(reqCode))
     ELSE IF StartsWith(reqCode, <<"U", "E">>)
       THEN Cardinality(taken \ Consumed(taken)) >= 1
     ELSE FALSE

checkRequirement(reqCode, taken) ==
  LET reqBase == getBaseCode(reqCode)
  IN IF \E takenCode \in taken : getBaseCode(takenCode) = reqBase THEN TRUE
     ELSE IF EndsWithPercent(reqCode)
       THEN \E code \in taken : StartsWith(code, SliceLast(reqCode))
     ELSE IF StartsWith(reqCode, <<"U", "E">>)
       THEN LET unconsumed == taken \ Consumed(taken)
                ueIndex == parseInt(SecondWord(reqCode)) - 1
            IN parseInt(SecondWord(reqCode)) # NaN /\ ueIndex < Cardinality(unconsumed)
     ELSE FALSE

\* sem.modules.some(m => getBaseCode(m.code) === courseBase || (wildcard match))
semContainsCourse(sem, courseCode) ==
  \E k \in 1..Len(sem.modules) :
    \/ getBaseCode(sem.modules[k].code) = getBaseCode(courseCode)
    \/ (EndsWithPercent(courseCode)
          /\ StartsWith(sem.modules[k].code, SliceLast(courseCode)))

\* the row of one course slot of the checklist
RenderCourseFutureFromCurrent(years, staged, currentYearNum, currentSemNum, courseCode) ==
  LET currentSemId == currentYearNum * 10 + currentSemNum
      isDone == checkRequirement(courseCode,
                  allTakenModules(years, staged, currentYearNum, currentSemNum))
  IN [isDone |-> isDone,
      isInFuturePlan |-> ~isDone /\ \E sl \in Slots(years) :
                            /\ SemOrder(years[sl[1]], SemAt(years, sl)) >= currentSemId
                            /\ semContainsCourse(SemAt(years, sl), courseCode),
      isInCurrentYear |-> ~isDone /\ \E sl \in Slots(years) :
                            /\ SemOrder(years[sl[1]], SemAt(years, sl)) = currentSemId
                            /\ semContainsCourse(SemAt(years, sl), courseCode)]

RenderCourse(years, staged, currentYearNum, currentSemNum, courseCode) ==
  LET currentSemId == currentYearNum * 10 + currentSemNum
      isDone == checkRequirement(courseCode,
                  allTakenModules(years, staged, currentYearNum, currentSemNum))
  IN [isDone |-> isDone,
      isInFuturePlan |-> ~isDone /\ \E sl \in Slots(years) :
                            /\ SemOrder(years[sl[1]], SemAt(years, sl)) > currentSemId
                            /\ semContainsCourse(SemAt(years, sl), courseCode),
      isInCurrentYear |-> ~isDone /\ \E sl \in Slots(years) :
                            /\ SemOrder(years[sl[1]], SemAt(years, sl)) = currentSemId
                            /\ semContainsCourse(SemAt(years, sl), courseCode)]

\* the slots of the checklist: (category index, course index)
RequirementSlots ==
  UNION {{<<cat, k>> : k \in 1..Len(REQUIREMENTS[cat].courses)} :
           cat \in 1..Len(REQUIREMENTS)}

\* REQUIREMENTS.map(category => category.courses.map(course => ...))
RenderChecklist(years, staged, pointer) ==
  LET current == parseCurrentSemester(pointer)
  IN [sl \in RequirementSlots |->
        RenderCourse(years, staged, current[1], current[2],
                     REQUIREMENTS[sl[1]].courses[sl[2]])]

(***************************************************************************)
(* Save and export: the flat list of placement records                      *)
(***************************************************************************)
\* const startYear = 2024 of getAYString
SaveStartYear == 2024

\* getAYString(year.label): the label is "Year <year.year>"; the academic year
\* `${a}/${a + 1}` is the pair <<a, a + 1>>
getAYString(year) ==
  LET yearIndex == year.year - 1
  IN <<SaveStartYear + yearIndex, SaveStartYear + yearIndex + 1>>

\* semNum of handleExportPlan
ExportSemNum(sem) ==
  IF sem.name = "Semester 2" THEN 2
  ELSE IF sem.name = "Special Term 1" THEN 3
  ELSE IF sem.name = "Special Term 2" THEN 4
  ELSE 1

\* the records of the modules of one semester, in order
SemRecords(sem, ayString, semNum) ==
  [k \in 1..Len(sem.modules) |->
     [year |-> ayString, semester |-> semNum, index |-> k - 1,
      moduleCode |-> sem.modules[k].code]]

RECURSIVE ConcatRecords(_, _, _)
ConcatRecords(n, f(_), i) == IF i > n THEN <<>> ELSE f(i) \o ConcatRecords(n, f, i + 1)

\* year "-1", semester -1 for the staged modules
StagedRecords(staged) ==
  [k \in 1..Len(staged) |->
     [year |-> <<-1>>, semester |-> -1, index |-> k - 1, moduleCode |-> staged[k].code]]

\* idCounter / moduleId: the records are numbered from 1 in list order
Numbered(records) ==
  [k \in 1..Len(records) |->
     [id |-> k, year |-> records[k].year, semester |-> records[k].semester,
      index |-> records[k].index, moduleCode |-> records[k].moduleCode]]

\* generateSavePayload(years, staged).modules
generateSavePayloadByExportNumber(years, staged) ==
  Numbered(
    ConcatRecords(Len(years),
      LAMBDA y : ConcatRecords(Len(years[y].semesters),
        LAMBDA t : SemRecords(years[y].semesters[t], getAYString(years[y]),
                              ExportSemNum(years[y].semesters[t])), 1), 1)
    \o StagedRecords(staged))

generateSavePayload(years, staged) ==
  Numbered(
    ConcatRecords(Len(years),
      LAMBDA y : ConcatRecords(Len(years[y].semesters),
        LAMBDA t : SemRecords(years[y].semesters[t], getAYString(years[y]),
                              SemNum(years[y].semesters[t])), 1), 1)
    \o StagedRecords(staged))

\* the modules of handleExportPlan's exportData
ExportRecords(years, staged) ==
  Numbered(
    ConcatRecords(Len(years),
      LAMBDA y : ConcatRecords(Len(years[y].semesters),
        LAMBDA t : SemRecords(years[y].semesters[t],
                              <<DefaultStartYear + (y - 1), DefaultStartYear + (y - 1) + 1>>,
                              ExportSemNum(years[y].semesters[t])), 1), 1)
    \o StagedRecords(staged))

PayloadUnchanged ==
  UNCHANGED <<academicYears, stagedModules, prereqViolations, offeringViolations,
              shakingSemId, timers, runs, planVersion, sinceMutation,
              lastPublished, lookupFailures, mutationsLeft, currentSemester, checklist,
              scheduler, startAcademicYear, generatedPlan>>

\* handleSavePlan(): the payload goes to savePlan, whose answer sets the toast
handleSavePlan ==
  /\ payload' = [by |-> "save",
                 modules |-> generateSavePayload(academicYears, stagedModules),
                 years |-> academicYears, staged |-> stagedModules]
  /\ \E answer \in {[message |-> "Plan saved successfully!", type |-> "success"],
                    [message |-> "Failed to save", type |-> "error"]} :
       toast' = answer
  /\ PayloadUnchanged

\* handleExportPlan(): the records are downloaded as a JSON file
handleExportPlan ==
  /\ payload' = [by |-> "export",
                 modules |-> ExportRecords(academicYears, stagedModules),
                 years |-> academicYears, staged |-> stagedModules]
  /\ toast' = [message |-> "Plan exported successfully!", type |-> "success"]
  /\ PayloadUnchanged

(***************************************************************************)
(* The plan generator (POST /plans/generate): anchors first, then greedy    *)
(* placement, one course a step                                             *)
(***************************************************************************)
\* horizon: 8 regular semesters across 4 years
Horizon == 8

\* the semester key of the i-th semester of the horizon: y1s1, y1s2, y2s1, ...
HorizonKey(i) == SemKey((i + 1) \div 2, 2 - (i % 2))

\* the semester number (1 or 2) of the i-th semester of the horizon
HorizonSemester(i) == 2 - (i % 2)

\* category priority: foundation (1) before breadth (2) before electives (3)
CategoryPriority(code) ==
  CASE code \in {"CS1101S", "CS2040S"} -> 1
    [] code \in {"MA1521", "MA1522", "ST2334"} -> 2
    [] OTHER -> 3

\* requirement lists of a degree, in list order
RequirementLists ==
  {<<"GEA1000", "ES2660", "MA1521", "MA1522", "ST2334">>,
   <<"CS1101S", "CS2040S", "CFG1002", "MA1521", "GEA1000">>,
   <<"CS2103T", "CS2101", "CS3216", "CS2040S", "MA1521">>}

\* fixed_courses of the request: none, or { 'CS1101S': 'y1s1' }
FixedCourses == {<<>>, <<[code |-> "CS1101S", key |-> "y1s1"]>>}

\* max_mcs of the request: what the number input holds
MaxMcs == {2, 8, 16}

\* the requests of handleGenerate
GeneratePlanRequests ==
  [courses : RequirementLists, max_mcs : MaxMcs, exempted_codes : {{}, {"CS1101S"}},
   sep_semester : {NoSep, "y2s1"}, fixed_courses : FixedCourses]

RECURSIVE SumCredits(_)
SumCredits(codes) ==
  IF codes = <<>> THEN 0 ELSE CourseInfo(Head(codes)).credit + SumCredits(Tail(codes))

\* the courses assigned so far, and the semester of each
AssignedCodes(plan) == UNION {{plan[i][k] : k \in 1..Len(plan[i])} : i \in 1..Horizon}

AssignedTo(plan, code) == CHOOSE i \in 1..Horizon : \E k \in 1..Len(plan[i]) : plan[i][k] = code

ListedCodes(request) == {request.courses[k] : k \in 1..Len(request.courses)}

\* the anchors of courses of the list that are not exempted, in request order
Anchors(request) ==
  SelectSeq(request.fixed_courses,
            LAMBDA a : a.code \in ListedCodes(request) \ request.exempted_codes)

\* "Fixed anchors are placed first and their semester capacity reserved"
RECURSIVE PlaceAnchorsFrom(_, _, _)
PlaceAnchorsFrom(plan, anchors, k) ==
  IF k > Len(anchors) THEN plan
  ELSE LET i == CHOOSE j \in 1..Horizon : HorizonKey(j) = anchors[k].key
       IN PlaceAnchorsFrom([plan EXCEPT ![i] = Append(@, anchors[k].code)], anchors, k + 1)

\* the courses still to be placed
Remaining(st) ==
  {c \in ListedCodes(st.request) \ st.request.exempted_codes :
     /\ c \notin AssignedCodes(st.plan)
     /\ \A k \in 1..Len(st.infeasible) : st.infeasible[k].code # c}

\* unplaced courses whose full prerequisite set is placed or exempted
ReadyCourses(st) ==
  {c \in Remaining(st) :
     PrereqOf(c) \subseteq AssignedCodes(st.plan) \cup st.request.exempted_codes}

ListIndex(request, code) == CHOOSE k \in 1..Len(request.courses) : request.courses[k] = code

\* tie-break: category priority, then original list order
SelectedCourseByListOrder(st) ==
  CHOOSE c \in ReadyCourses(st) :
    \A d \in ReadyCourses(st) \ {c} : ListIndex(st.request, c) < ListIndex(st.request, d)

SelectedCourse(st) ==
  CHOOSE c \in ReadyCourses(st) :
    \A d \in ReadyCourses(st) \ {c} :
      \/ CategoryPriority(c) < CategoryPriority(d)
      \/ /\ CategoryPriority(c) = CategoryPriority(d)
         /\ ListIndex(st.request, c) < ListIndex(st.request, d)

\* the semester after the last prerequisite placed in the plan
EarliestEligible(st, code) ==
  LET sems == {AssignedTo(st.plan, q) : q \in PrereqOf(code) \cap AssignedCodes(st.plan)}
  IN IF sems = {} THEN 1 ELSE 1 + (CHOOSE i \in sems : \A j \in sems : j <= i)

\* the semesters that can take the course: not the exchange semester, the
\* course offered, enough remaining credit capacity
FittingIgnoringCapacity(st, code) ==
  {i \in EarliestEligible(st, code)..Horizon :
     /\ HorizonKey(i) # st.request.sep_semester
     /\ OfferedIn(code, HorizonSemester(i))}

FittingIgnoringExchange(st, code) ==
  {i \in EarliestEligible(st, code)..Horizon :
     /\ OfferedIn(code, HorizonSemester(i))
     /\ SumCredits(st.plan[i]) + CourseInfo(code).credit <= st.request.max_mcs}

Fitting(st, code) ==
  {i \in EarliestEligible(st, code)..Horizon :
     /\ HorizonKey(i) # st.request.sep_semester
     /\ OfferedIn(code, HorizonSemester(i))
     /\ SumCredits(st.plan[i]) + CourseInfo(code).credit <= st.request.max_mcs}

SchedulerUnchanged ==
  UNCHANGED <<academicYears, stagedModules, prereqViolations, offeringViolations,
              toast, shakingSemId, timers, runs, planVersion, sinceMutation,
              lastPublished, lookupFailures, mutationsLeft, currentSemester, checklist,
              payload, startAcademicYear, generatedPlan>>

\* handleGenerate posts a request
generatePlan ==
  /\ scheduler = NoRequest
  /\ \E request \in GeneratePlanRequests :
       scheduler' = [request |-> request, phase |-> "anchors",
                     plan |-> [i \in 1..Horizon |-> <<>>], infeasible |-> <<>>]
  /\ SchedulerUnchanged

\* the anchors are placed
PlaceAnchors ==
  /\ scheduler # NoRequest
  /\ scheduler.phase = "anchors"
  /\ scheduler' = [scheduler EXCEPT
                     !.phase = "greedy",
                     !.plan = PlaceAnchorsFrom(@, Anchors(scheduler.request), 1)]
  /\ SchedulerUnchanged

\* the next ready course goes to the earliest semester that can take it, or
\* to the infeasible list if none can
PlaceNext ==
  /\ scheduler # NoRequest
  /\ scheduler.phase = "greedy"
  /\ ReadyCourses(scheduler) # {}
  /\ LET code == SelectedCourse(scheduler)
         fitting == Fitting(scheduler, code)
     IN IF fitting = {}
          THEN scheduler' = [scheduler EXCEPT
                 !.infeasible = Append(@, [code |-> code, reason |-> "no semester"])]
          ELSE LET i == CHOOSE j \in fitting : \A l \in fitting : j <= l
               IN scheduler' = [scheduler EXCEPT !.plan[i] = Append(@, code)]
  /\ SchedulerUnchanged

\* no course is ready: the rest is reported unscheduled, in list order
ReportUnscheduledSilently ==
  /\ scheduler # NoRequest
  /\ scheduler.phase = "greedy"
  /\ ReadyCourses(scheduler) = {}
  /\ scheduler' = [scheduler EXCEPT !.phase = "done"]
  /\ SchedulerUnchanged

ReportUnscheduled ==
  /\ scheduler # NoRequest
  /\ scheduler.phase = "greedy"
  /\ ReadyCourses(scheduler) = {}
  /\ scheduler' = [scheduler EXCEPT
       !.phase = "done",
       !.infeasible = @ \o [k \in 1..Len(SelectSeq(scheduler.request.courses,
                                           LAMBDA c : c \in Remaining(scheduler))) |->
                              [code |-> SelectSeq(scheduler.request.courses,
                                           LAMBDA c : c \in Remaining(scheduler))[k],
                               reason |-> "prerequisites"]]]
  /\ SchedulerUnchanged

\* the codes of a set as a list
ListOf(codes) ==
  CHOOSE list \in [1..Cardinality(codes) -> codes] :
    \A c \in codes : \E k \in 1..Cardinality(codes) : list[k] = c

\* the response to an answered request: the assignment under the semester
\* keys (every key, or the keys of the semesters that hold a course), the
\* exchange semester and, optionally (exempted?: string[]), the exempted codes
SchedulerResponse(st, everyKey, withExempted) ==
  LET used == {i \in 1..Horizon : everyKey \/ st.plan[i] # <<>>}
      assignment == [key \in {HorizonKey(i) : i \in used} |->
                       st.plan[CHOOSE i \in used : HorizonKey(i) = key]]
  IN IF withExempted
       THEN [plan |-> assignment, sep_semester |-> st.request.sep_semester,
             exempted |-> ListOf(st.request.exempted_codes)]
       ELSE [plan |-> assignment, sep_semester |-> st.request.sep_semester]

\* the years the generatedPlan effect builds: [1, 2, 3, 4]
LoadedYears == 4

\* setGeneratedPlan(result): the response reaches the board, which loads it
loadSchedulerResult ==
  /\ scheduler # NoRequest
  /\ scheduler.phase = "done"
  /\ generatedPlan = NoPlan
  /\ \E everyKey \in BOOLEAN, withExempted \in BOOLEAN :
       LET plan == SchedulerResponse(scheduler, everyKey, withExempted)
       IN /\ generatedPlan' = plan
          /\ RenderWith(newAcademicYears(plan, parseAcademicYear(startAcademicYear),
                                         LoadedYears),
                        StagedAfterLoad(plan, stagedModules))
  /\ toast' = [message |-> "Study plan generated successfully!", type |-> "success"]
  /\ UNCHANGED <<shakingSemId, startAcademicYear>>
  /\ UiUnchanged

(***************************************************************************)
(* Specification                                                            *)
(***************************************************************************)
Next ==
  \/ Tick
  \/ TimerFire
  \/ Publish
  \/ handleDrop
  \/ handleModuleSelect
  \/ deleteModule
  \/ addExemptedCourse
  \/ deleteExemptedCourse
  \/ addSpecialTerm
  \/ deleteSpecialTerm
  \/ loadGeneratedPlan

Spec == Init /\ [][Next]_vars

\* the editing operations alone (edits made before the debounce expires)
EditInit ==
  /\ Mounted
  /\ mutationsLeft = MaxEdits

EditNext ==
  \/ handleDrop
  \/ handleModuleSelect
  \/ deleteModule
  \/ addSpecialTerm

EditSpec == EditInit /\ [][EditNext]_vars

\* adding and deleting special terms, and filling them
TermNext ==
  \/ handleModuleSelect
  \/ addSpecialTerm
  \/ deleteSpecialTerm

TermSpec == EditInit /\ [][TermNext]_vars

\* the plan generator alone
SchedulerNext ==
  \/ generatePlan
  \/ PlaceAnchors
  \/ PlaceNext
  \/ ReportUnscheduled

SchedulerSpec == EditInit /\ [][SchedulerNext]_vars

\* a request is answered: the run is synchronous and is not suspended
SchedulerFairSpec == SchedulerSpec /\ WF_vars(SchedulerNext)

\* the plan generator and the loading of its result
LoadNext ==
  \/ generatePlan
  \/ PlaceAnchors
  \/ PlaceNext
  \/ ReportUnscheduled
  \/ loadSchedulerResult

LoadSpec == EditInit /\ [][LoadNext]_vars

\* generating, editing and changing the start academic year
YearNext ==
  \/ loadGeneratedPlan
  \/ handleModuleSelect
  \/ deleteModule
  \/ setStartAcademicYear

YearSpec == EditInit /\ [][YearNext]_vars

\* editing, saving and exporting
SaveNext ==
  \/ handleModuleSelect
  \/ deleteModule
  \/ addSpecialTerm
  \/ handleSavePlan
  \/ handleExportPlan

SaveSpec == EditInit /\ [][SaveNext]_vars

\* the requirement checklist alone: a plan of courses in the two semesters of
\* Year 1 and among the exempted courses, rendered under each pointer
MatchCodeList ==
  <<<<"C", "S", "2", "0", "4", "0", "C">>,
    <<"G", "E", "C", "1", "0", "2", "1">>,
    <<"M", "A", "1", "3", "0", "1">>,
    <<"P", "C", "1", "1", "0", "1">>,
    <<"L", "A", "J", "1", "2", "0", "1">>>>

MatchPositions == {"none", "Semester 1", "Semester 2", "exempted"}

RECURSIVE MatchYears(_, _)
MatchYears(at, i) ==
  IF i = 0 THEN DEFAULT_PLAN
  ELSE LET prev == MatchYears(at, i - 1)
           code == MatchCodeList[i]
       IN IF at[i] \in {"Semester 1", "Semester 2"}
            THEN MapSemesters(prev,
                   LAMBDA sem : IF sem.name = at[i]
                                  THEN SelectSem(sem, sem.id, code, "")
                                  ELSE sem)
            ELSE prev

\* a first semester of eleven courses that no requirement names
ElectiveCodeList ==
  <<<<"L", "A", "J", "1", "2", "0", "1">>,
    <<"L", "A", "J", "1", "2", "0", "2">>,
    <<"L", "A", "J", "1", "2", "0", "3">>,
    <<"L", "A", "J", "1", "2", "0", "4">>,
    <<"L", "A", "J", "1", "2", "0", "5">>,
    <<"L", "A", "J", "1", "2", "0", "6">>,
    <<"L", "A", "J", "1", "2", "0", "7">>,
    <<"L", "A", "J", "1", "2", "0", "8">>,
    <<"L", "A", "J", "1", "2", "0", "9">>,
    <<"L", "A", "J", "1", "2", "1", "0">>,
    <<"L", "A", "J", "1", "2", "1", "1">>>>

RECURSIVE ElectiveYears(_)
ElectiveYears(i) ==
  IF i = 0 THEN DEFAULT_PLAN
  ELSE MapSemesters(ElectiveYears(i - 1),
         LAMBDA sem : IF sem.name = "Semester 1"
                        THEN SelectSem(sem, sem.id, ElectiveCodeList[i], "")
                        ELSE sem)

\* the pointers the checklist is rendered under
MatchPointers ==
  {<<"Y", "0", "S", "0">>, <<"Y", "1", "S", "1">>, <<"Y", "1", "S", "2">>,
   <<"Y", "2", "S", "1">>}

MatchStaged(at) ==
  LET chosen == SelectSeq([i \in 1..Len(MatchCodeList) |-> i], LAMBDA i : at[i] = "exempted")
  IN [j \in 1..Len(chosen) |->
        [id |-> "t" \o ToString(j), code |-> MatchCodeList[chosen[j]], type |-> "exempted",
         mcs |-> DefaultUnits]]

MatchInit ==
  /\ \/ \E at \in [1..Len(MatchCodeList) -> MatchPositions] :
          /\ academicYears = MatchYears(at, Len(MatchCodeList))
          /\ stagedModules = MatchStaged(at)
     \/ /\ academicYears = ElectiveYears(Len(ElectiveCodeList))
        /\ stagedModules = <<>>
  /\ currentSemester \in MatchPointers
  /\ checklist = NotRendered
  /\ payload = NoPayload
  /\ scheduler = NoRequest
  /\ startAcademicYear = <<"2", "0", "2", "4", "/", "2", "0", "2", "5">>
  /\ generatedPlan = NoPlan
  /\ prereqViolations = EmptyMap
  /\ offeringViolations = EmptyMap
  /\ toast = NoToast
  /\ shakingSemId = NoSem
  /\ timers = {}
  /\ runs = {}
  /\ planVersion = 0
  /\ sinceMutation = 0
  /\ lastPublished = <<>>
  /\ lookupFailures = 0
  /\ mutationsLeft = 0

\* the checklist is rendered from the plan, the exempted courses and the pointer
renderChecklist ==
  /\ checklist = NotRendered
  /\ checklist' = RenderChecklist(academicYears, stagedModules, currentSemester)
  /\ UNCHANGED <<academicYears, stagedModules, prereqViolations, offeringViolations,
                 toast, shakingSemId, timers, runs, planVersion, sinceMutation,
                 lastPublished, lookupFailures, mutationsLeft, currentSemester, payload,
                 scheduler, startAcademicYear, generatedPlan>>

\* the parent passes another currentSemester, and the board renders again
setCurrentSemester ==
  /\ checklist # NotRendered
  /\ \E pointer \in MatchPointers \ {currentSemester} :
       /\ currentSemester' = pointer
       /\ checklist' = RenderChecklist(academicYears, stagedModules, pointer)
  /\ UNCHANGED <<academicYears, stagedModules, prereqViolations, offeringViolations,
                 toast, shakingSemId, timers, runs, planVersion, sinceMutation,
                 lastPublished, lookupFailures, mutationsLeft, payload, scheduler,
                 startAcademicYear, generatedPlan>>

MatchNext ==
  \/ renderChecklist
  \/ setCurrentSemester

MatchSpec == MatchInit /\ [][MatchNext]_vars

TypeOK ==
  /\ planVersion + mutationsLeft \in {MaxMutations, MaxEdits}
  /\ sinceMutation \in 0..DebounceMs
  /\ Len(academicYears) = NumYears
  /\ Cardinality(runs) <= MaxInFlight

(***************************************************************************)
(* Properties                                                               *)
(***************************************************************************)
\* the validation runs that started: in flight, or the one that published last
AllRuns == runs \cup {lastPublished[i].run : i \in 1..Len(lastPublished)}

CodeAt(years, p) == ModAt(years, p).code

\* the semester number of a slot, by name
SemesterNumber(name) ==
  CASE name = "Semester 1" -> 1
    [] name = "Semester 2" -> 2
    [] name = "Special Term 1" -> 1
    [] name = "Special Term 2" -> 2

\* order = year*10 + semester number of the slot that holds placement p
OrderOf(years, p) == years[p[1]].year * 10 + SemesterNumber(years[p[1]].semesters[p[2]].name)

\* codes placed in semesters of order strictly less than o, plus the exempted codes
AvailableBefore(years, staged, o) ==
  {c \in Codes \cup StagedCodes(staged) :
     \/ \E q \in Placements(years) : CodeAt(years, q) = c /\ OrderOf(years, q) < o
     \/ \E i \in 1..Len(staged) : staged[i].code = c}

\* how often a code is placed in the plan and listed as exempted
Occurrences(years, staged, c) ==
  Cardinality({p \in Placements(years) : CodeAt(years, p) = c})
  + Cardinality({i \in 1..Len(staged) : staged[i].code = c})

\* C1: no course code appears in more than one placement across all the
\* semesters of the plan together with the exempted list.
C1_Uniqueness ==
  \A c \in Codes \cup StagedCodes(stagedModules) :
    Occurrences(academicYears, stagedModules, c) <= 1

\* C2: a published violation map was computed from the plan version that is
\* current at publish time (a run whose plan changed meanwhile never publishes).
C2_StaleDiscarded ==
  \A i \in 1..Len(lastPublished) :
    lastPublished[i].run.version = lastPublished[i].atVersion

\* C3: once no run is pending or in flight, the published maps are those
\* computed from the final plan (no earlier run has overwritten a later one).
C3_FinalPlanPublished ==
  (timers = {} /\ runs = {}) =>
    /\ lastPublished # <<>>
    /\ \A i \in 1..Len(lastPublished) :
         /\ lastPublished[i].run.years = academicYears
         /\ lastPublished[i].run.staged = stagedModules
         /\ prereqViolations = lastPublished[i].run.pViolations
         /\ offeringViolations = lastPublished[i].run.oViolations

\* the case of C4: code is dragged from sourceId onto another semester while a
\* semester other than the drag source holds the same code
DuplicateDrop(code, sourceId, targetSemId) ==
  /\ sourceId # targetSemId
  /\ code \in CodesOfSem(academicYears, sourceId)
  /\ \E semId \in SemIds(academicYears) \ {sourceId} :
       code \in CodesOfSem(academicYears, semId)

Checked(years) == {p \in Placements(years) : ~ModAt(years, p).fluff}

\* the prerequisites of the course at placement p are met by the codes placed
\* in strictly earlier order and the exempted codes of the same plan
Satisfied(years, staged, p) ==
  PrereqOf(CodeAt(years, p)) \subseteq AvailableBefore(years, staged, OrderOf(years, p))

\* C5: the prerequisites of every non-fluff course placed at order o are checked
\* against exactly the codes placed at order < o plus the exempted codes; with
\* CS1101S earlier CS2040S gets no violation, with CS1101S in the same semester
\* (and not earlier or exempted) CS2040S is reported missing CS1101S.
C5_PrereqInput ==
  \A r \in AllRuns :
    \A p \in Checked(r.years) :
      LET o == OrderOf(r.years, p)
          sent == {q \in r.pRequests : q.slot = p}
      IN /\ sent = {[slot |-> p, module_code |-> CodeAt(r.years, p),
                     completed_modules |-> AvailableBefore(r.years, r.staged, o)]}
         /\ \A q \in sent : \A p2 \in Placements(r.years) :
              (OrderOf(r.years, p2) >= o /\ CodeAt(r.years, p2) \in q.completed_modules) =>
                 \/ CodeAt(r.years, p2) \in StagedCodes(r.staged)
                 \/ \E p3 \in Placements(r.years) :
                      /\ CodeAt(r.years, p3) = CodeAt(r.years, p2)
                      /\ OrderOf(r.years, p3) < o
         /\ (CodeAt(r.years, p) = "CS2040S" /\ p \notin r.failP) =>
              IF "CS1101S" \in AvailableBefore(r.years, r.staged, o)
                THEN p \notin r.pSets
                ELSE /\ p \in r.pSets
                     /\ "CS2040S" \in DOMAIN r.pViolations
                     /\ r.pViolations["CS2040S"] = {"CS1101S"}

\* a run published for a plan with CS1101S and CS2040S in the same semester
C5_SameSemesterReported ==
  /\ lastPublished # <<>>
  /\ \E p \in Placements(lastPublished[1].run.years),
        q \in Placements(lastPublished[1].run.years) :
       /\ CodeAt(lastPublished[1].run.years, p) = "CS2040S"
       /\ CodeAt(lastPublished[1].run.years, q) = "CS1101S"
       /\ p[1] = q[1] /\ p[2] = q[2]
       /\ p \in lastPublished[1].run.pSets
  /\ "CS2040S" \in DOMAIN prereqViolations
  /\ prereqViolations["CS2040S"] = {"CS1101S"}

\* C6 (as claimed): the published prerequisite map has no entry for a course
\* whose prerequisites are met by the current plan and the current exemptions.
C6_NoEntryWhenSatisfiedNow ==
  \A c \in DOMAIN prereqViolations :
    \A p \in Placements(academicYears) :
      CodeAt(academicYears, p) = c => ~Satisfied(academicYears, stagedModules, p)

\* C6 (amended): the published prerequisite map is the one of the run published
\* last, and it has an entry for a code only if a non-fluff placement of that
\* code has unmet prerequisites in the plan that run was computed from.
C6_NoEntryWhenSatisfiedInSnapshot ==
  /\ lastPublished = <<>> => prereqViolations = EmptyMap
  /\ \A i \in 1..Len(lastPublished) :
       LET r == lastPublished[i].run
       IN /\ prereqViolations = r.pViolations
          /\ \A c \in DOMAIN prereqViolations :
               /\ \E p \in Checked(r.years) :
                    CodeAt(r.years, p) = c /\ ~Satisfied(r.years, r.staged, p)
               /\ prereqViolations[c] # {}
               /\ prereqViolations[c] \subseteq PrereqOf(c)

\* a run published a prerequisite violation for a plan that also holds a
\* course whose prerequisites are met
C6_ViolationPublished ==
  /\ lastPublished # <<>>
  /\ DOMAIN prereqViolations # {}
  /\ \E p \in Checked(lastPublished[1].run.years) :
       /\ PrereqOf(CodeAt(lastPublished[1].run.years, p)) # {}
       /\ Satisfied(lastPublished[1].run.years, lastPublished[1].run.staged, p)
       /\ CodeAt(lastPublished[1].run.years, p) \notin DOMAIN prereqViolations

\* C7: a run starts only after DebounceMs without a mutation; at most one run
\* is pending, it is the one scheduled by the latest mutation, and a run that
\* starts reads the plan that is current at its start.
C7_Debounce ==
  /\ Cardinality(timers) <= 1
  /\ \A t \in timers :
       /\ t.version = planVersion
       /\ t.years = academicYears
       /\ t.staged = stagedModules
       /\ t.remaining >= DebounceMs - sinceMutation
  /\ \A r \in AllRuns :
       /\ r.quiet >= DebounceMs
       /\ r.startedAtVersion = r.version

\* a run started for a plan that was edited twice
C7_RunAfterEdits ==
  \E r \in AllRuns : r.version >= 2 /\ r.quiet >= DebounceMs

\* the semester number of the slot that holds placement p
NumberOf(years, p) == SemesterNumber(years[p[1]].semesters[p[2]].name)

\* the catalog's answer to the prerequisite lookup of placement p
PrereqAnswer(years, staged, p) ==
  checkPrerequisites(CodeAt(years, p), AvailableBefore(years, staged, OrderOf(years, p)))

YearsWithout(years, c) ==
  [y \in 1..Len(years) |->
    [years[y] EXCEPT !.semesters =
      [s \in 1..Len(years[y].semesters) |->
        [years[y].semesters[s] EXCEPT !.modules =
           SelectSeq(years[y].semesters[s].modules, LAMBDA m : m.code # c)]]]]

StagedWithout(staged, c) == SelectSeq(staged, LAMBDA m : m.code # c)

\* the credit the occurrences of code c carry
CreditsOf(years, staged, c) ==
  {IF ModAt(years, p).units = 0 THEN 4 ELSE ModAt(years, p).units :
     p \in {q \in Placements(years) : CodeAt(years, q) = c}}
  \cup {IF staged[i].mcs = 0 THEN 4 ELSE staged[i].mcs :
          i \in {j \in 1..Len(staged) : staged[j].code = c}}

\* C9: a placement flagged fluff has no lookup sent and no violation recorded
\* on its account; its code is in the completed set sent for every course
\* placed later; the progress total counts the credit of its code.
C9_Fluff ==
  /\ \A r \in AllRuns :
       \A p \in Placements(r.years) \ Checked(r.years) :
         /\ p \notin r.pSets \cup r.oSets
         /\ \A q \in r.pRequests : q.slot # p
         /\ \A q \in r.oRequests : q.slot # p
         /\ CodeAt(r.years, p) \in DOMAIN r.pViolations =>
              \E p2 \in Checked(r.years) \cap r.pSets : CodeAt(r.years, p2) = CodeAt(r.years, p)
         /\ CodeAt(r.years, p) \in DOMAIN r.oViolations =>
              \E p2 \in Checked(r.years) \cap r.oSets : CodeAt(r.years, p2) = CodeAt(r.years, p)
         /\ \A q \in r.pRequests :
              OrderOf(r.years, q.slot) > OrderOf(r.years, p) =>
                CodeAt(r.years, p) \in q.completed_modules
  /\ \A p \in Placements(academicYears) \ Checked(academicYears) :
       \A ptr \in Pointers :
         LET c == CodeAt(academicYears, p)
             all == progressionStats(academicYears, stagedModules, ptr[1], ptr[2])
             rest == progressionStats(YearsWithout(academicYears, c),
                                      StagedWithout(stagedModules, c), ptr[1], ptr[2])
         IN /\ all.total - rest.total \in CreditsOf(academicYears, stagedModules, c)
            /\ all.total = all.completed + all.current + all.planned

\* a run published no violation for a fluff placement that the catalog reports
\* as not offered and as missing a prerequisite, and a later course was checked
\* with the fluff code among its completed codes
C9_FluffSkipped ==
  /\ lastPublished # <<>>
  /\ academicYears = lastPublished[1].run.years
  /\ \E p \in Placements(academicYears) \ Checked(academicYears) :
       /\ ~Satisfied(academicYears, stagedModules, p)
       /\ ~OfferedIn(CodeAt(academicYears, p), NumberOf(academicYears, p))
       /\ CodeAt(academicYears, p) \notin DOMAIN prereqViolations \cup DOMAIN offeringViolations
       /\ \E q \in lastPublished[1].run.pRequests :
            /\ OrderOf(academicYears, q.slot) > OrderOf(academicYears, p)
            /\ CodeAt(academicYears, p) \in q.completed_modules
       /\ progressionStats(academicYears, stagedModules, 1, 1).total
            > progressionStats(YearsWithout(academicYears, CodeAt(academicYears, p)),
                               stagedModules, 1, 1).total

CreditOr4(units) == IF units = 0 THEN 4 ELSE units

\* every distinct code of the plan and the exempted list
DistinctCodes(years, staged) ==
  {CodeAt(years, p) : p \in Placements(years)} \cup StagedCodes(staged)

\* placement p comes before placement q in the plan (year, slot, position)
Before(p, q) ==
  \/ p[1] < q[1]
  \/ p[1] = q[1] /\ p[2] < q[2]
  \/ p[1] = q[1] /\ p[2] = q[2] /\ p[3] < q[3]

\* the occurrence that counts for code c: the first exempted entry, otherwise
\* the first placement of the plan
FirstStaged(staged, c) ==
  CHOOSE i \in 1..Len(staged) :
    staged[i].code = c /\ \A j \in 1..Len(staged) : staged[j].code = c => i <= j

FirstPlaced(years, c) ==
  CHOOSE p \in Placements(years) :
    /\ CodeAt(years, p) = c
    /\ \A q \in Placements(years) : CodeAt(years, q) = c => (q = p \/ Before(p, q))

CreditOfCode(years, staged, c) ==
  IF c \in StagedCodes(staged)
    THEN CreditOr4(staged[FirstStaged(staged, c)].mcs)
    ELSE CreditOr4(ModAt(years, FirstPlaced(years, c)).units)

BucketOfCode(years, staged, c, currentOrder) ==
  IF c \in StagedCodes(staged) THEN "completed"
  ELSE LET o == OrderOf(years, FirstPlaced(years, c))
       IN IF o < currentOrder THEN "completed"
          ELSE IF o = currentOrder THEN "current" ELSE "planned"

RECURSIVE CreditSum(_, _, _)
CreditSum(codes, years, staged) ==
  IF codes = {} THEN 0
  ELSE LET c == CHOOSE x \in codes : TRUE
       IN CreditOfCode(years, staged, c) + CreditSum(codes \ {c}, years, staged)

BucketSum(years, staged, bucket, currentOrder) ==
  CreditSum({c \in DistinctCodes(years, staged) :
               BucketOfCode(years, staged, c, currentOrder) = bucket}, years, staged)

\* C11: every distinct code contributes its credit to exactly one bucket
\* (completed below the current order, current at it, planned above it,
\* exempted codes completed), and the three buckets add up to the credit of
\* all distinct codes of the plan and the exempted list.
C11_ProgressPartition ==
  \A str \in CurrentSemesters :
    LET ptr == parseCurrentSemester(str)
        currentOrder == ptr[1] * 10 + ptr[2]
        stats == progressionStats(academicYears, stagedModules, ptr[1], ptr[2])
    IN /\ stats.completed = BucketSum(academicYears, stagedModules, "completed", currentOrder)
       /\ stats.current = BucketSum(academicYears, stagedModules, "current", currentOrder)
       /\ stats.planned = BucketSum(academicYears, stagedModules, "planned", currentOrder)
       /\ stats.completed + stats.current + stats.planned
            = CreditSum(DistinctCodes(academicYears, stagedModules),
                        academicYears, stagedModules)
       /\ stats.total = stats.completed + stats.current + stats.planned

\* a plan with a completed, a current and an exempted course, pointer Y1S2
C11_ThreeBuckets ==
  LET stats == progressionStats(academicYears, stagedModules, 1, 2)
  IN /\ stagedModules # <<>>
     /\ \E p \in Placements(academicYears), q \in Placements(academicYears) :
          /\ OrderOf(academicYears, p) = 11
          /\ OrderOf(academicYears, q) = 12
          /\ CodeAt(academicYears, p) # CodeAt(academicYears, q)
          /\ {CodeAt(academicYears, p), CodeAt(academicYears, q)}
               \cap StagedCodes(stagedModules) = {}
     /\ stats.completed >= 8
     /\ stats.current >= 4

\* the plan without any course whose code is exempted
RECURSIVE YearsWithoutAll(_, _)
YearsWithoutAll(years, codes) ==
  IF codes = {} THEN years
  ELSE LET c == CHOOSE x \in codes : TRUE
       IN YearsWithoutAll(YearsWithout(years, c), codes \ {c})

\* C12: with the pointer Y0S0 nothing is current, every distinct code of the
\* plan that is not exempted is planned and the completed credit is that of
\* the distinct exempted codes; for every pointer the exempted codes are
\* counted as completed, on top of what the rest of the plan completes.
C12_IncomingSentinel ==
  /\ LET ptr == parseCurrentSemester(<<"Y", "0", "S", "0">>)
         stats == progressionStats(academicYears, stagedModules, ptr[1], ptr[2])
     IN /\ ptr = <<0, 0>>
        /\ stats.current = 0
        /\ stats.completed = CreditSum(StagedCodes(stagedModules), academicYears, stagedModules)
        /\ stats.planned = CreditSum(DistinctCodes(academicYears, stagedModules)
                                       \ StagedCodes(stagedModules),
                                     academicYears, stagedModules)
  /\ \A str \in CurrentSemesters :
       LET ptr == parseCurrentSemester(str)
           stats == progressionStats(academicYears, stagedModules, ptr[1], ptr[2])
           rest == progressionStats(YearsWithoutAll(academicYears, StagedCodes(stagedModules)),
                                    <<>>, ptr[1], ptr[2])
       IN stats.completed
            = rest.completed + CreditSum(StagedCodes(stagedModules), academicYears, stagedModules)

\* a plan with an exempted course and courses in both semesters
C12_IncomingWithCourses ==
  /\ stagedModules # <<>>
  /\ \E p \in Placements(academicYears), q \in Placements(academicYears) :
       /\ OrderOf(academicYears, p) = 11
       /\ OrderOf(academicYears, q) = 12
       /\ CodeAt(academicYears, p) \notin StagedCodes(stagedModules)
  /\ progressionStats(academicYears, stagedModules, 0, 0).planned >= 8
  /\ progressionStats(academicYears, stagedModules, 0, 0).completed >= 4

\* the plan with the special terms and the exchange semester emptied
RegularOnly(years) ==
  [y \in 1..Len(years) |->
    [years[y] EXCEPT !.semesters =
      [i \in 1..Len(years[y].semesters) |->
        IF \/ years[y].semesters[i].isExchange
           \/ years[y].semesters[i].name \in {"Special Term 1", "Special Term 2"}
          THEN [years[y].semesters[i] EXCEPT !.modules = <<>>]
          ELSE years[y].semesters[i]]]]

\* C13: the credits of courses placed in a special term or in the exchange
\* semester are added neither to the completed/current/planned totals nor to
\* the credit total of their year.
C13_SpecialTermsExcluded ==
  /\ \A str \in CurrentSemesters :
       LET ptr == parseCurrentSemester(str)
       IN progressionStats(academicYears, stagedModules, ptr[1], ptr[2])
            = progressionStats(RegularOnly(academicYears), stagedModules, ptr[1], ptr[2])
  /\ \A y \in 1..Len(academicYears) :
       yearTotalUnits(academicYears[y]) = yearTotalUnits(RegularOnly(academicYears)[y])

\* a code matches a requirement pattern: the prefix of a wildcard pattern, or
\* the base code of an exact pattern
MatchesPattern(code, pattern) ==
  IF EndsWithPercent(pattern)
    THEN StartsWith(code, SliceLast(pattern))
    ELSE getBaseCode(code) = getBaseCode(pattern)

NonElectiveSlots ==
  {sl \in RequirementSlots : REQUIREMENTS[sl[1]].category # "Unrestricted Electives"}

PatternOf(sl) == REQUIREMENTS[sl[1]].courses[sl[2]]

PlanCodes == {CodeAt(academicYears, p) : p \in Placements(academicYears)}

\* the order (year * 10 + semester number) of the currentSemester prop
CurrentOrder == parseCurrentSemester(currentSemester)[1] * 10
                  + parseCurrentSemester(currentSemester)[2]

\* the codes placed in semesters before the current one
PastCodes ==
  {CodeAt(academicYears, p) :
     p \in {q \in Placements(academicYears) : OrderOf(academicYears, q) < CurrentOrder}}

ExemptedCodes == StagedCodes(stagedModules)

\* C14, as claimed: a non-elective slot is reported fulfilled iff some code of
\* the plan (any semester, whatever the pointer) or of the exempted list
\* matches its pattern.
C14_FulfilledFromWholePlan ==
  checklist # NotRendered =>
    \A sl \in NonElectiveSlots :
      checklist[sl].isDone <=>
        \E code \in PlanCodes \cup ExemptedCodes : MatchesPattern(code, PatternOf(sl))

\* C14, amended: a non-elective slot is reported fulfilled iff some code placed
\* in a semester whose order is less than the current order, or some exempted
\* code, matches its pattern (same base code, or the prefix of a wildcard).
C14_FulfilledFromPastAndExempted ==
  checklist # NotRendered =>
    \A sl \in NonElectiveSlots :
      checklist[sl].isDone <=>
        \E code \in PastCodes \cup ExemptedCodes : MatchesPattern(code, PatternOf(sl))

\* GEC1021 in a past semester fulfils GEC%, and CS2040C in the current
\* semester leaves CS2040S unfulfilled
C14_PastFulfilsCurrentDoesNot ==
  /\ checklist # NotRendered
  /\ CurrentOrder = 12
  /\ <<"G", "E", "C", "1", "0", "2", "1">> \in CodesOfSem(academicYears, 1)
  /\ <<"C", "S", "2", "0", "4", "0", "C">> \in CodesOfSem(academicYears, 2)
  /\ checklist[<<1, 3>>].isDone
  /\ PatternOf(<<2, 3>>) = <<"C", "S", "2", "0", "4", "0", "S">>
  /\ ~checklist[<<2, 3>>].isDone

\* the taken codes that no slot of a non-elective category matches
Unconsumed ==
  {code \in PastCodes \cup ExemptedCodes :
     \A sl \in NonElectiveSlots : ~MatchesPattern(code, PatternOf(sl))}

ElectiveSlots == RequirementSlots \ NonElectiveSlots

\* C15: with N taken codes that no non-elective slot matches and M
\* unrestricted-elective slots, the UE slot at 0-based position i is fulfilled
\* iff N >= i + 1, so exactly min(N, M) slots, the first ones, are fulfilled.
C15_ElectiveOverflow ==
  checklist # NotRendered =>
    LET N == Cardinality(Unconsumed)
        M == Cardinality(ElectiveSlots)
    IN /\ \A sl \in ElectiveSlots : checklist[sl].isDone <=> N >= (sl[2] - 1) + 1
       /\ Cardinality({sl \in ElectiveSlots : checklist[sl].isDone}) = Min(N, M)

\* three unconsumed codes and ten slots: UE 1 to UE 3 fulfilled, UE 4 to UE 10 not
C15_ThreeOfTen ==
  /\ checklist # NotRendered
  /\ Cardinality(Unconsumed) = 3
  /\ Cardinality(ElectiveSlots) = 10
  /\ PastCodes \cup ExemptedCodes # Unconsumed
  /\ \A sl \in ElectiveSlots : checklist[sl].isDone <=> sl[2] <= 3

\* a code matching the pattern is placed in a semester of this order relation
\* to the current order
PlacedAtCurrent(pattern) ==
  \E p \in Placements(academicYears) :
    /\ OrderOf(academicYears, p) = CurrentOrder
    /\ MatchesPattern(CodeAt(academicYears, p), pattern)

PlacedInFuture(pattern) ==
  \E p \in Placements(academicYears) :
    /\ OrderOf(academicYears, p) > CurrentOrder
    /\ MatchesPattern(CodeAt(academicYears, p), pattern)

\* the flags of every rendered row agree with the placements of the plan
FlagsProjectPlan ==
  checklist # NotRendered =>
    \A sl \in RequirementSlots :
      IF checklist[sl].isDone
        THEN ~checklist[sl].isInCurrentYear /\ ~checklist[sl].isInFuturePlan
        ELSE /\ checklist[sl].isInCurrentYear <=> PlacedAtCurrent(PatternOf(sl))
             /\ checklist[sl].isInFuturePlan <=> PlacedInFuture(PatternOf(sl))

\* C17: an unfulfilled requirement slot is flagged 'current' iff a matching
\* code is placed in a semester whose order equals the current order, and
\* 'future' iff a matching code is placed in a semester of greater order; a
\* fulfilled slot is flagged neither; and computing the flags changes neither
\* the plan nor the exempted list.
C17_Colouring ==
  /\ []FlagsProjectPlan
  /\ [][checklist' # checklist => UNCHANGED <<academicYears, stagedModules>>]_vars

\* under Y1S1, CS2040C in Semester 1 flags CS2040S 'current' and GEC1021 in
\* Semester 2 flags GEC% 'future'
C17_CurrentAndFuture ==
  /\ checklist # NotRendered
  /\ CurrentOrder = 11
  /\ <<"C", "S", "2", "0", "4", "0", "C">> \in CodesOfSem(academicYears, 1)
  /\ <<"G", "E", "C", "1", "0", "2", "1">> \in CodesOfSem(academicYears, 2)
  /\ checklist[<<2, 3>>] = [isDone |-> FALSE, isInCurrentYear |-> TRUE, isInFuturePlan |-> FALSE]
  /\ checklist[<<1, 3>>] = [isDone |-> FALSE, isInCurrentYear |-> FALSE, isInFuturePlan |-> TRUE]

\* what a record list has to determine: year, semester slot, position and
\* code of every placement, and the exempted list
PlacementView(years, staged) ==
  [placed |-> {<<years[p[1]].year, SemAt(years, <<p[1], p[2]>>).name, p[3],
                 CodeAt(years, p)>> : p \in Placements(years)},
   exempted |-> [i \in 1..Len(staged) |-> staged[i].code]]

\* the records the board would produce now, the way the payload was produced
RecordsNow ==
  IF payload.by = "save"
    THEN generateSavePayload(academicYears, stagedModules)
    ELSE ExportRecords(academicYears, stagedModules)

\* C16: the record list produced by save and by export determines the plan:
\* a plan that produces the records saved or exported earlier has the same
\* placements (year, semester slot, position, code) and the same exempted list.
C16_Lossless ==
  (payload # NoPayload /\ RecordsNow = payload.modules) =>
    PlacementView(academicYears, stagedModules)
      = PlacementView(payload.years, payload.staged)

SpecialTerms == {"Special Term 1", "Special Term 2"}

NamedSlots(year, name) == {t \in 1..Len(year.semesters) : year.semesters[t].name = name}

\* the plan that addSpecialTerm(yearNum, termType) sets
AfterAdd(yearNum, termType) ==
  [y \in 1..Len(academicYears) |-> AddTermToYear(academicYears[y], yearNum, termType)]

\* the plan that deleteSpecialTerm sets for the special term at slot sl
AfterDelete(sl) ==
  [y \in 1..Len(academicYears) |->
     DeleteTermOfYear(academicYears[y], academicYears[sl[1]].year,
                      SemAt(academicYears, sl).id)]

\* the semesters of a year without the one at position t
WithoutSlot(semesters, t) ==
  [k \in 1..(Len(semesters) - 1) |-> IF k < t THEN semesters[k] ELSE semesters[k + 1]]

\* C18: every year holds its two regular semesters and at most one Special
\* Term 1 and one Special Term 2; adding a special term that the year already
\* has leaves the plan unchanged; deleting a special term removes that slot
\* from that year and changes no other semester.
C18_PlanStructure ==
  /\ \A y \in 1..Len(academicYears) :
       /\ Cardinality(NamedSlots(academicYears[y], "Semester 1")) = 1
       /\ Cardinality(NamedSlots(academicYears[y], "Semester 2")) = 1
       /\ \A termType \in SpecialTerms :
            /\ Cardinality(NamedSlots(academicYears[y], termType)) <= 1
            /\ NamedSlots(academicYears[y], termType) # {}
                 => AfterAdd(academicYears[y].year, termType) = academicYears
  /\ \A sl \in Slots(academicYears) :
       SemAt(academicYears, sl).name \in SpecialTerms =>
         AfterDelete(sl) =
           [y \in 1..Len(academicYears) |->
              IF y = sl[1]
                THEN [academicYears[y] EXCEPT
                        !.semesters = WithoutSlot(academicYears[y].semesters, sl[2])]
                ELSE academicYears[y]]

\* Special Term 1 was deleted from a year that keeps its Special Term 2 and the
\* course placed there
C18_DeletedBesideOtherTerm ==
  /\ toast = [message |-> "Special term removed", type |-> "success"]
  /\ \E y \in 1..Len(academicYears) :
       /\ NamedSlots(academicYears[y], "Special Term 1") = {}
       /\ \E t \in NamedSlots(academicYears[y], "Special Term 2") :
            Len(academicYears[y].semesters[t].modules) = 1

\* the credits assigned to the i-th semester of the horizon
CreditsIn(i) == SumCredits(scheduler.plan[i])

\* the credits of the anchors of the i-th semester
AnchoredIn(i) ==
  SumCredits([k \in 1..Len(SelectSeq(Anchors(scheduler.request),
                                       LAMBDA a : a.key = HorizonKey(i))) |->
                SelectSeq(Anchors(scheduler.request), LAMBDA a : a.key = HorizonKey(i))[k].code])

\* every anchored course is placed, in its anchor semester
AnchorsPlaced ==
  \A k \in 1..Len(Anchors(scheduler.request)) :
    LET a == Anchors(scheduler.request)[k]
    IN /\ a.code \in AssignedCodes(scheduler.plan)
       /\ HorizonKey(AssignedTo(scheduler.plan, a.code)) = a.key

\* C20, as claimed: the credits assigned to any one semester never exceed
\* maxCreditsPerSemester, fixed anchors included: each anchored course is
\* placed in its anchor semester.
C20_CapWithAnchors ==
  (scheduler # NoRequest /\ scheduler.phase # "anchors") =>
    /\ AnchorsPlaced
    /\ \A i \in 1..Horizon : CreditsIn(i) <= scheduler.request.max_mcs

\* C20, amended: every anchored course is placed in its anchor semester before
\* greedy placement; a semester whose anchors fit the cap never exceeds the
\* cap, and a semester whose anchors alone exceed it receives no other course.
C20_CapUnlessAnchorsExceed ==
  (scheduler # NoRequest /\ scheduler.phase # "anchors") =>
    /\ AnchorsPlaced
    /\ \A i \in 1..Horizon :
         IF AnchoredIn(i) <= scheduler.request.max_mcs
           THEN CreditsIn(i) <= scheduler.request.max_mcs
           ELSE CreditsIn(i) = AnchoredIn(i)

\* cap 16 and five independent 4-credit courses: four in the first semester,
\* the fifth in the next
C20_FourThenOne ==
  /\ scheduler # NoRequest
  /\ scheduler.phase = "done"
  /\ scheduler.request.max_mcs = 16
  /\ scheduler.request.courses = <<"GEA1000", "ES2660", "MA1521", "MA1522", "ST2334">>
  /\ Len(scheduler.plan[1]) = 4 /\ CreditsIn(1) = 16
  /\ Len(scheduler.plan[2]) = 1
  /\ scheduler.infeasible = <<>>

\* the courses the scheduler has dealt with: placed, or listed infeasible
InfeasibleCodes(st) == {st.infeasible[k].code : k \in 1..Len(st.infeasible)}

Handled(st) == AssignedCodes(st.plan) \cup InfeasibleCodes(st)

\* every prerequisite of a placed course is exempted or placed strictly earlier
PrereqsEarlier ==
  scheduler # NoRequest =>
    \A c \in AssignedCodes(scheduler.plan) :
      \A q \in PrereqOf(c) :
        \/ q \in scheduler.request.exempted_codes
        \/ /\ q \in AssignedCodes(scheduler.plan)
           /\ AssignedTo(scheduler.plan, q) < AssignedTo(scheduler.plan, c)

\* c comes before d: higher category priority, or the same and earlier in the list
ComesBefore(request, c, d) ==
  \/ CategoryPriority(c) < CategoryPriority(d)
  \/ /\ CategoryPriority(c) = CategoryPriority(d)
     /\ ListIndex(request, c) < ListIndex(request, d)

\* the course of a greedy step comes before every other course ready at that step
SelectedByPriority ==
  (scheduler # NoRequest /\ scheduler.phase = "greedy" /\ scheduler'.phase = "greedy") =>
    \A c \in Handled(scheduler') \ Handled(scheduler) :
      /\ c \in ReadyCourses(scheduler)
      /\ \A d \in ReadyCourses(scheduler) \ {c} : ComesBefore(scheduler.request, c, d)

\* C21: each placed course has its full prerequisite set placed in strictly
\* earlier semesters or exempted; among the courses ready at a step the one
\* of higher category priority is selected, ties broken by list order.
C21_PrerequisiteOrder ==
  /\ []PrereqsEarlier
  /\ [][SelectedByPriority]_vars

\* the chain CS1101S, CS2040S, CFG1002 in ascending semesters, and MA1521
\* (breadth) placed although CFG1002 (elective), listed before it, is not yet
C21_ChainAndPriority ==
  /\ scheduler # NoRequest
  /\ scheduler.phase = "greedy"
  /\ scheduler.plan[1] = <<"CS1101S", "MA1521">>
  /\ scheduler.plan[2] = <<"CS2040S">>
  /\ "CFG1002" \in ReadyCourses(scheduler)

\* the i-th semester can take the course in state st: it is not before the
\* semester after the course's last placed prerequisite, it is not the
\* exchange semester, the course is offered, and the credits fit
CanTake(st, c, i) ==
  /\ \A q \in PrereqOf(c) \cap AssignedCodes(st.plan) : AssignedTo(st.plan, q) < i
  /\ HorizonKey(i) # st.request.sep_semester
  /\ OfferedIn(c, HorizonSemester(i))
  /\ SumCredits(st.plan[i]) + CourseInfo(c).credit <= st.request.max_mcs

\* no course is assigned to the exchange semester
ExchangeKeptFree ==
  scheduler # NoRequest =>
    \A i \in 1..Horizon :
      HorizonKey(i) = scheduler.request.sep_semester => scheduler.plan[i] = <<>>

\* a greedy step puts its course into the earliest semester that can take it
PlacedEarliest ==
  (scheduler # NoRequest /\ scheduler.phase = "greedy" /\ scheduler'.phase = "greedy") =>
    \A c \in AssignedCodes(scheduler'.plan) \ AssignedCodes(scheduler.plan) :
      LET i == AssignedTo(scheduler'.plan, c)
      IN /\ CanTake(scheduler, c, i)
         /\ \A j \in 1..(i - 1) : ~CanTake(scheduler, c, j)

Requested == ListedCodes(scheduler.request) \ scheduler.request.exempted_codes

\* placed and infeasible courses are courses of the request, none is both, and
\* every infeasible course has a reason
InfeasibleApart ==
  scheduler # NoRequest =>
    /\ Handled(scheduler) \subseteq Requested
    /\ AssignedCodes(scheduler.plan) \cap InfeasibleCodes(scheduler) = {}
    /\ \A k \in 1..Len(scheduler.infeasible) :
         /\ scheduler.infeasible[k].reason \in {"no semester", "prerequisites"}
         /\ \A l \in 1..Len(scheduler.infeasible) :
              scheduler.infeasible[k].code = scheduler.infeasible[l].code => k = l

\* the output accounts for every course of the request, and a course listed
\* for its prerequisites does lack one that is neither placed nor exempted
AllAccountedFor ==
  (scheduler # NoRequest /\ scheduler.phase = "done") =>
    /\ Handled(scheduler) = Requested
    /\ \A k \in 1..Len(scheduler.infeasible) :
         scheduler.infeasible[k].reason = "prerequisites" =>
           ~(PrereqOf(scheduler.infeasible[k].code)
               \subseteq AssignedCodes(scheduler.plan) \cup scheduler.request.exempted_codes)

\* a greedy step deals with exactly one more course, and lists it infeasible
\* only if no semester can take it
OneCourseAStep ==
  (scheduler # NoRequest /\ scheduler.phase = "greedy" /\ scheduler'.phase = "greedy") =>
    /\ Cardinality(Handled(scheduler') \ Handled(scheduler)) = 1
    /\ Handled(scheduler) \subseteq Handled(scheduler')
    /\ \A c \in InfeasibleCodes(scheduler') \ InfeasibleCodes(scheduler) :
         \A i \in 1..Horizon : ~CanTake(scheduler, c, i)

\* the scheduler has returned its output
Answered == scheduler # NoRequest /\ scheduler.phase = "done"

C25_OrderInjective ==
  \A sl \in Slots(academicYears), tl \in Slots(academicYears) :
    sl # tl =>
      SemOrder(academicYears[sl[1]], SemAt(academicYears, sl))
        # SemOrder(academicYears[tl[1]], SemAt(academicYears, tl))

SemIdOf(years, p) == years[p[1]].semesters[p[2]].id

\* the step moves the course at placement p to placement q of another semester
Moves(p, q) ==
  /\ CodeAt(academicYears, p) = CodeAt(academicYears', q)
  /\ SemIdOf(academicYears, p) # SemIdOf(academicYears', q)
  /\ \A r \in Placements(academicYears) \ {p} :
       CodeAt(academicYears, r) # CodeAt(academicYears, p)
  /\ \A r \in Placements(academicYears') \ {q} :
       CodeAt(academicYears', r) # CodeAt(academicYears, p)

\* C26: an accepted drop of a course from semester A onto another semester B
\* removes it from A and inserts it into B, leaves the course list of every
\* other semester and the exempted list unchanged, keeps the number of placed
\* courses, and the moved course keeps its title, credit and fluff flag.
C26_MoveKeepsCourse ==
  [][\A p \in Placements(academicYears), q \in Placements(academicYears') :
       Moves(p, q) =>
         /\ ModAt(academicYears', q) = ModAt(academicYears, p)
         /\ Cardinality(Placements(academicYears')) = Cardinality(Placements(academicYears))
         /\ stagedModules' = stagedModules
         /\ \A sl \in Slots(academicYears) :
              SemAt(academicYears, sl).id
                  \notin {SemIdOf(academicYears, p), SemIdOf(academicYears', q)}
                => SemAt(academicYears', sl) = SemAt(academicYears, sl)]_vars

\* C27: changing the start academic year changes only the academicYear label
\* of each year; every semester's course list stays as it was, the edits made
\* after a plan was generated included.
C27_OnlyLabelsChange ==
  [][startAcademicYear' # startAcademicYear =>
       /\ academicYears' = Relabel(academicYears, parseAcademicYear(startAcademicYear'))
       /\ stagedModules' = stagedModules]_vars

\* C28: after any sequence of generate, add, move, reorder and delete
\* operations, each semester's stored units value equals the sum of the
\* credits of the courses it holds and is never negative.
C28_UnitsConsistent ==
  \A y \in 1..Len(academicYears) :
    \A n \in 1..Len(academicYears[y].semesters) :
      LET sem == academicYears[y].semesters[n]
      IN /\ sem.units = SumUnits(sem.modules)
         /\ sem.units >= 0

\* the step leaves the plan as a drop of the course on its own semester at
\* index k leaves it
ReordersAt(semId, code, k) ==
  /\ planVersion' = planVersion + 1
  /\ academicYears' = MapSemesters(academicYears,
                        LAMBDA sem : ReorderSem(sem, semId, code, k))

\* the semester after the drop holds the same cards, the other cards in their
\* order, and the moved card at index k (from a later position) or at endPos
\* (from an earlier one)
PermutedTo(before, after, code, k, endPos) ==
  /\ [after EXCEPT !.modules = before.modules] = before
  /\ Len(after.modules) = Len(before.modules)
  /\ {after.modules[i] : i \in 1..Len(after.modules)}
       = {before.modules[i] : i \in 1..Len(before.modules)}
  /\ FilterCode(after.modules, code) = FilterCode(before.modules, code)
  /\ FindIndex(before.modules, code) > k => FindIndex(after.modules, code) = k
  /\ FindIndex(before.modules, code) < k => FindIndex(after.modules, code) = endPos

\* every semester but this one, and the exempted list, are as before
OnlySemesterChanged(semId) ==
  /\ stagedModules' = stagedModules
  /\ Slots(academicYears') = Slots(academicYears)
  /\ \A sl \in Slots(academicYears) :
       SemAt(academicYears, sl).id # semId
         => SemAt(academicYears', sl) = SemAt(academicYears, sl)

\* C29 (as stated): dropping a course onto its own semester at index k
\* permutes only that semester's list: same courses, the others in their
\* order, the moved course at k if it came from a position after k and at
\* k - 1 if it came from a position before k; every other semester and the
\* exempted list are unchanged.
C29_EndsAtKMinusOne ==
  [][\A semId \in SemIds(academicYears) : \A code \in CodesOfSem(academicYears, semId) :
     \A k \in 0..MaxDragIndex(academicYears) :
       ReordersAt(semId, code, k)
         => /\ OnlySemesterChanged(semId)
            /\ LET sl == SlotOfId(academicYears, semId)
               IN PermutedTo(SemAt(academicYears, sl), SemAt(academicYears', sl),
                             code, k, k - 1)]_vars

\* C29 (amended): as above, but a course that came from a position before k
\* ends at k - 1 only if k is at most the number n of courses of the
\* semester; for a larger k (the index hovered last in a longer semester) it
\* ends last, at n - 1.
C29_ReorderPermutes ==
  [][\A semId \in SemIds(academicYears) : \A code \in CodesOfSem(academicYears, semId) :
     \A k \in 0..MaxDragIndex(academicYears) :
       ReordersAt(semId, code, k)
         => /\ OnlySemesterChanged(semId)
            /\ LET sl == SlotOfId(academicYears, semId)
                   n == Len(SemAt(academicYears, sl).modules)
               IN PermutedTo(SemAt(academicYears, sl), SemAt(academicYears', sl),
                             code, k, Min(k, n) - 1)]_vars

\* three courses were added, one alone in its semester and two in another, and
\* a fourth edit (a drop of the first on its own semester at index 2, the
\* index hovered last in the other semester) left every list as it was
C29_DroppedPastEnd ==
  /\ planVersion = 4
  /\ \E a \in Slots(academicYears), b \in Slots(academicYears) :
       /\ Len(SemAt(academicYears, a).modules) = 1
       /\ Len(SemAt(academicYears, b).modules) = 2
       /\ \A sl \in Slots(academicYears) \ {a, b} : SemAt(academicYears, sl).modules = <<>>

\* the codes of a list of cards
CodesOfModules(modules) == [k \in 1..Len(modules) |-> modules[k].code]

\* for each year N in 1..4 and semester M in 1..2 the plan holds in year N
\* semester M exactly the codes listed under key yNsM, in the listed order,
\* with units equal to the sum of their credits; exactly the semester whose
\* key equals sep_semester is marked as the exchange slot; every code of the
\* result's semester assignment appears in the plan
HoldsAssignment(result, years) ==
  /\ Len(years) = 4
  /\ \A N \in 1..4 : \A M \in 1..2 :
       LET sem == years[N].semesters[M]
           listed == IF SemKey(N, M) \in DOMAIN result.plan
                       THEN result.plan[SemKey(N, M)] ELSE <<>>
       IN /\ Len(years[N].semesters) = 2
          /\ CodesOfModules(sem.modules) = listed
          /\ sem.units = SumCredits(listed)
          /\ sem.isExchange <=> SemKey(N, M) = result.sep_semester
  /\ \A key \in DOMAIN result.plan :
       \A k \in 1..Len(result.plan[key]) :
         \E p \in Placements(years) : ModAt(years, p).code = result.plan[key][k]

\* the exempted codes of a result (none if it lists none)
ExemptedOf(result) == IF "exempted" \in DOMAIN result THEN result.exempted ELSE <<>>

\* C30 (as stated): loading a scheduler result puts the codes listed under
\* yNsM in year N semester M, in order, with units the sum of their credits,
\* marks exactly the sep_semester as the exchange slot, holds every code of
\* the assignment, and replaces the exempted list by the result's exempted
\* codes.
C30_ExemptedReplaced ==
  [][generatedPlan' # generatedPlan =>
       /\ HoldsAssignment(generatedPlan', academicYears')
       /\ CodesOfModules(stagedModules') = ExemptedOf(generatedPlan')]_vars

\* C30 (amended): as above, but the exempted list is replaced only by a
\* result that carries an exempted list; a result without one leaves the
\* exempted list as it was.
C30_LoadedAsListed ==
  [][generatedPlan' # generatedPlan =>
       /\ HoldsAssignment(generatedPlan', academicYears')
       /\ IF "exempted" \in DOMAIN generatedPlan'
            THEN CodesOfModules(stagedModules') = generatedPlan'.exempted
            ELSE stagedModules' = stagedModules]_vars

\* a result with an exchange semester and a semester of two courses, one of 2
\* credits, but without an exempted list is loaded: MA1301 is still exempted
C30_LoadedWithExchange ==
  /\ generatedPlan # NoPlan
  /\ "exempted" \notin DOMAIN generatedPlan
  /\ stagedModules = InitialStaged
  /\ academicYears[2].semesters[1].isExchange
  /\ Len(academicYears[1].semesters[2].modules) = 2
  /\ \E p \in Placements(academicYears) : ModAt(academicYears, p).code = "CFG1002"

====
